---- MODULE Spec2Model ----
(***************************************************************************)
(* Verification model of the ProfilanIQ server.                            *)
(*                                                                         *)
(*   PoolSpec   WorkerService (server/services/workerService.js) together  *)
(*              with the worker script workerRunner.js                     *)
(*   CacheSpec  CacheService (server/services/cacheService.js) together    *)
(*              with the POST / handler of routes/profile.js               *)
(*   FingerprintSpec  CacheService.generateFingerprint                     *)
(*   SamplingSpec     SamplingService (services/samplingService.js)        *)
(*   ProfilerSpec     ProfilerService (services/profilerService.js)        *)
(*   CompareSpec      routes/compare.js and the validation of POST /       *)
(*   CombineSpec      WorkerService.combineResults                         *)
(***************************************************************************)
EXTENDS Integers, Sequences, FiniteSets, TLC

VARIABLES
    \* ---- WorkerService ----
    maxWorkers,        \* this.maxWorkers
    activeWorkers,     \* this.activeWorkers
    workerPool,        \* this.workerPool
    taskQueue,         \* this.taskQueue: sequence of <<op, index>>
    nChunks,           \* per operation: chunks.length (-1 before the call)
    optMaxWorkers,     \* per operation: the maxWorkers option after defaulting
    results,           \* per operation: the results array of the closure
    completedWorkers,  \* per operation: completedWorkers of the closure
    hasError,          \* per operation: hasError of the closure
    timeoutId,         \* per operation: state of the setTimeout timer
    promise,           \* per operation: state and value of the returned promise
    worker,            \* per task <<op, index>>: thread state and workerCompleted
    raised             \* history: the chunk function of some chunk of the operation raised

VARIABLES
    \* ---- CacheService and the POST / handler of routes/profile.js ----
    now,               \* Date.now(), in hours
    cacheMap,          \* this.cacheMap: fingerprint -> {path, timestamp}
    files,             \* the files <cacheDir>/<fingerprint>.json
    req,               \* the request suspended at `await profilerService.profileData`
    response,          \* the response sent by the last request, until the next step
    lookup,            \* history: the getCachedResult call of the last step
    stored             \* history: per fingerprint, the last successful cacheResult

VARIABLES
    \* ---- calls of the services and handlers without state of their own ----
    fingerprinted,     \* two generateFingerprint calls: the requests and the results
    sampling,          \* the last createSample call, its result and its repetition
    profiling,         \* the last profileData call and its outcome
    comparing,         \* the last request with a record view and its response
    combining          \* the last combineResults call and its result

cacheVars == <<now, cacheMap, files, req, response, lookup, stored>>

engineVars == <<fingerprinted, sampling, profiling, comparing, combining>>

poolVars == <<maxWorkers, activeWorkers, workerPool, taskQueue, nChunks,
              optMaxWorkers, results, completedWorkers, hasError,
              timeoutId, promise, worker, raised>>

vars == <<poolVars, cacheVars, engineVars>>

----------------------------------------------------------------------------
\* Bounds of the pool model
MaxRows == 2          \* data.length ranges over 0..MaxRows

Max(a, b) == IF a > b THEN a ELSE b
Min(a, b) == IF a < b THEN a ELSE b
CeilDiv(a, b) == (a + b - 1) \div b

\* two processInParallel calls share the pool
Ops == {1, 2}
\* os.cpus().length of the machines considered
CpuCounts == {1, 2, 3}
\* this.maxWorkers = Math.max(1, os.cpus().length - 1)
PoolSizes == {Max(1, c - 1) : c \in CpuCounts}
Indexes == 0..(MaxRows - 1)
Tasks == Ops \X Indexes
\* taskName = 'process': the calls of this model leave the option absent
DefaultTaskName == "process"


\* ---- values that travel from a worker to the pool ----
\* A partial result is an object: a map from keys to values.
NoResult == [k \in {} |-> 0]
\* what a chunk function returns for chunk i: the statistics of its own
\* column, and under a key that every chunk writes the number of the chunk
ChunkResult(i) ==
    [k \in {<<"col", i>>, <<"chunk", 0>>} |->
        IF k = <<"chunk", 0>> THEN ToString(i) ELSE "stats"]
\* what workerRunner posts when the chunk function throws or its promise
\* rejects: parentPort.postMessage({ error: error.message })
ErrorObject == [k \in {<<"error", 0>>} |-> "message"]

\* { ...a, ...b }
Spread(a, b) ==
    [k \in (DOMAIN a) \cup (DOMAIN b) |-> IF k \in DOMAIN b THEN b[k] ELSE a[k]]

\* results.reduce((combined, result) => ({ ...combined, ...result }), {})
RECURSIVE ReduceSpread(_, _)
ReduceSpread(res, n) ==
    IF n = 0 THEN NoResult
    ELSE Spread(ReduceSpread(res, n - 1), res[n - 1])

\* results.flatMap(result => result.all || []) over results 0..n-1
RECURSIVE FlatMapAll(_, _)
FlatMapAll(res, n) ==
    IF n = 0 THEN <<>>
    ELSE FlatMapAll(res, n - 1)
           \o (IF "all" \in DOMAIN res[n - 1] THEN res[n - 1].all ELSE <<>>)

\* WorkerService.combineResults for partial results that are objects
combineResults(res, n, name) ==
    IF n = 0 THEN NoResult
    ELSE IF name = "profileColumns" THEN ReduceSpread(res, n)
    ELSE IF name = "calculateCorrelations" THEN [all |-> FlatMapAll(res, n)]
    ELSE ReduceSpread(res, n)

\* WorkerService.chunkArray: the number of chunks of an array of len rows
chunkArray(len, size) == CeilDiv(len, size)

----------------------------------------------------------------------------
\* The promise returned by processInParallel: resolve and reject settle it
\* only while it is pending.
Pending == [state |-> "pending", value |-> NoResult, error |-> "none"]
NotCalled == [state |-> "none", value |-> NoResult, error |-> "none"]

resolve(p, v) ==
    IF p.state = "pending" THEN [state |-> "resolved", value |-> v, error |-> "none"]
    ELSE p

reject(p, e) ==
    IF p.state = "pending" THEN [state |-> "rejected", value |-> NoResult, error |-> e]
    ELSE p

clearTimeout(t) == IF t = "armed" THEN "cleared" ELSE t

\* The pool state threaded through queueTask / processQueue / runWorker
PoolState(q, a, w) == [queue |-> q, active |-> a, workers |-> w]

\* WorkerService.runWorker: this.activeWorkers++ and a new Worker is created
runWorker(s, t) ==
    [s EXCEPT !.active = @ + 1,
              !.workers = [@ EXCEPT ![t] = [st |-> "running", workerCompleted |-> FALSE]]]

\* processQueue taking the task queued last: pop() in place of shift()
processQueue_Lifo(s) ==
    IF Len(s.queue) = 0 THEN s
    ELSE IF s.active < maxWorkers
         THEN runWorker([s EXCEPT !.queue = SubSeq(@, 1, Len(@) - 1)],
                        s.queue[Len(s.queue)])
         ELSE s

\* WorkerService.processQueue
processQueue(s) ==
    IF Len(s.queue) = 0 THEN s
    ELSE IF s.active < maxWorkers
         THEN runWorker([s EXCEPT !.queue = Tail(@)], Head(s.queue))
         ELSE s

\* WorkerService.queueTask
queueTask(s, t) == processQueue([s EXCEPT !.queue = Append(@, t)])

\* chunks.forEach((chunk, index) => this.queueTask(...)) for indexes 0..n-1
RECURSIVE QueueChunks(_, _, _)
QueueChunks(s, o, n) ==
    IF n = 0 THEN s
    ELSE queueTask(QueueChunks(s, o, n - 1), <<o, n - 1>>)

\* The closure state of one operation
Closure(o) == [results |-> results[o], completedWorkers |-> completedWorkers[o],
               hasError |-> hasError[o], timeoutId |-> timeoutId[o],
               promise |-> promise[o]]

\* callback with the clearTimeout of the error branch left out
callback_KeepsTimer(c, o, index, error, result) ==
    IF c.hasError THEN c
    ELSE IF error # "none"
    THEN [c EXCEPT !.hasError = TRUE,
                   !.promise = reject(@, error)]
    ELSE LET res == [c.results EXCEPT ![index] = result]
             done == c.completedWorkers + 1
         IN IF done = nChunks[o]
            THEN [c EXCEPT !.results = res,
                           !.completedWorkers = done,
                           !.timeoutId = clearTimeout(@),
                           !.promise = resolve(@, combineResults(res, nChunks[o], DefaultTaskName))]
            ELSE [c EXCEPT !.results = res, !.completedWorkers = done]

\* callback storing the results in the order of completion: results.push
callback_PushesResult(c, o, index, error, result) ==
    IF c.hasError THEN c
    ELSE IF error # "none"
    THEN [c EXCEPT !.hasError = TRUE,
                   !.timeoutId = clearTimeout(@),
                   !.promise = reject(@, error)]
    ELSE LET res == [c.results EXCEPT ![c.completedWorkers] = result]
             done == c.completedWorkers + 1
         IN IF done = nChunks[o]
            THEN [c EXCEPT !.results = res,
                           !.completedWorkers = done,
                           !.timeoutId = clearTimeout(@),
                           !.promise = resolve(@, combineResults(res, nChunks[o], DefaultTaskName))]
            ELSE [c EXCEPT !.results = res, !.completedWorkers = done]

\* The completion callback given to queueTask (workerService.js 79-105)
callback(c, o, index, error, result) ==
    IF c.hasError THEN c
    ELSE IF error # "none"
    THEN [c EXCEPT !.hasError = TRUE,
                   !.timeoutId = clearTimeout(@),
                   !.promise = reject(@, error)]
    ELSE LET res == [c.results EXCEPT ![index] = result]
             done == c.completedWorkers + 1
         IN IF done = nChunks[o]
            THEN [c EXCEPT !.results = res,
                           !.completedWorkers = done,
                           !.timeoutId = clearTimeout(@),
                           !.promise = resolve(@, combineResults(res, nChunks[o], DefaultTaskName))]
            ELSE [c EXCEPT !.results = res, !.completedWorkers = done]

SetClosure(o, c) ==
    /\ results' = [results EXCEPT ![o] = c.results]
    /\ completedWorkers' = [completedWorkers EXCEPT ![o] = c.completedWorkers]
    /\ hasError' = [hasError EXCEPT ![o] = c.hasError]
    /\ timeoutId' = [timeoutId EXCEPT ![o] = c.timeoutId]
    /\ promise' = [promise EXCEPT ![o] = c.promise]

SetPool(s) ==
    /\ taskQueue' = s.queue
    /\ activeWorkers' = s.active
    /\ worker' = s.workers

----------------------------------------------------------------------------
PoolInit ==
    /\ maxWorkers \in PoolSizes
    /\ activeWorkers = 0
    /\ workerPool = <<>>
    /\ taskQueue = <<>>
    /\ nChunks = [o \in Ops |-> -1]
    /\ optMaxWorkers = [o \in Ops |-> 0]
    /\ results = [o \in Ops |-> [i \in Indexes |-> NoResult]]
    /\ completedWorkers = [o \in Ops |-> 0]
    /\ hasError = [o \in Ops |-> FALSE]
    /\ timeoutId = [o \in Ops |-> "none"]
    /\ promise = [o \in Ops |-> NotCalled]
    /\ worker = [t \in Tasks |-> [st |-> "none", workerCompleted |-> FALSE]]
    /\ raised = [o \in Ops |-> FALSE]

\* processInParallel(data, taskFn, options): optW = 0 and optSize = 0 stand for
\* an absent maxWorkers and an absent chunkSize option.
processInParallel(o, len, optW, optSize) ==
    /\ promise[o].state = "none"
    /\ LET mw == IF optW = 0 THEN maxWorkers ELSE optW
           size == IF optSize = 0 THEN CeilDiv(len, mw) ELSE optSize
       IN IF len = 0
          THEN \* return { error: 'No data to process' }
               /\ promise' = [promise EXCEPT ![o] = resolve(Pending, ErrorObject)]
               /\ nChunks' = [nChunks EXCEPT ![o] = 0]
               /\ optMaxWorkers' = [optMaxWorkers EXCEPT ![o] = mw]
               /\ UNCHANGED <<taskQueue, activeWorkers, worker, timeoutId>>
          ELSE LET n == chunkArray(len, size)
                   s == QueueChunks(PoolState(taskQueue, activeWorkers, worker), o, n)
               IN /\ nChunks' = [nChunks EXCEPT ![o] = n]
                  /\ optMaxWorkers' = [optMaxWorkers EXCEPT ![o] = mw]
                     /\ promise' = [promise EXCEPT ![o] = Pending]
                  /\ timeoutId' = [timeoutId EXCEPT ![o] = "armed"]
                  /\ SetPool(s)
    /\ UNCHANGED <<maxWorkers, workerPool, results, completedWorkers, hasError,
                   raised>>
    /\ UNCHANGED <<cacheVars, engineVars>>

\* worker.on('message'): the worker posted msg. threw tells whether msg is the
\* error object workerRunner posts after the chunk function raised.
WorkerMessage(o, i, threw) ==
    /\ worker[<<o, i>>].st = "running"
    /\ ~worker[<<o, i>>].workerCompleted
    /\ LET msg == IF threw THEN ErrorObject ELSE ChunkResult(i)
           c == callback(Closure(o), o, i, "none", msg)
           w == [worker EXCEPT ![<<o, i>>] = [st |-> "ended", workerCompleted |-> TRUE]]
           s == processQueue(PoolState(taskQueue, activeWorkers - 1, w))
       IN /\ SetClosure(o, c)
          /\ SetPool(s)
    /\ raised' = [raised EXCEPT ![o] = @ \/ threw]
    /\ UNCHANGED <<maxWorkers, workerPool, nChunks, optMaxWorkers>>
    /\ UNCHANGED <<cacheVars, engineVars>>

\* worker.on('error'): an uncaught exception in the worker thread
WorkerError(o, i) ==
    /\ worker[<<o, i>>].st = "running"
    /\ IF ~worker[<<o, i>>].workerCompleted
       THEN LET c == callback(Closure(o), o, i, "workerError", NoResult)
                w == [worker EXCEPT ![<<o, i>>] = [st |-> "ended", workerCompleted |-> TRUE]]
                s == processQueue(PoolState(taskQueue, activeWorkers - 1, w))
            IN /\ SetClosure(o, c)
               /\ SetPool(s)
       ELSE /\ worker' = [worker EXCEPT ![<<o, i>>].st = "ended"]
            /\ UNCHANGED <<results, completedWorkers, hasError, timeoutId, promise,
                           taskQueue, activeWorkers>>
    /\ UNCHANGED <<maxWorkers, workerPool, nChunks, optMaxWorkers, raised>>
    /\ UNCHANGED <<cacheVars, engineVars>>

\* worker.on('exit'): the thread ended with exit code `code`. The exit that
\* follows a posted message or an error event finds workerCompleted set and
\* changes nothing, so a worker is "ended" as soon as its message or error
\* has been handled.
WorkerExit(o, i, code) ==
    /\ worker[<<o, i>>].st \in {"running", "terminated"}
    /\ worker[<<o, i>>].st = "terminated" => code = 1
    /\ IF ~worker[<<o, i>>].workerCompleted /\ code # 0
       THEN LET c == callback(Closure(o), o, i, "exitCode", NoResult)
                w == [worker EXCEPT ![<<o, i>>] = [st |-> "ended", workerCompleted |-> TRUE]]
                s == processQueue(PoolState(taskQueue, activeWorkers - 1, w))
            IN /\ SetClosure(o, c)
               /\ SetPool(s)
       ELSE /\ worker' = [worker EXCEPT ![<<o, i>>].st = "ended"]
            /\ UNCHANGED <<results, completedWorkers, hasError, timeoutId, promise,
                           taskQueue, activeWorkers>>
    /\ UNCHANGED <<maxWorkers, workerPool, nChunks, optMaxWorkers, raised>>
    /\ UNCHANGED <<cacheVars, engineVars>>

\* The workers the deadline callback terminates: those of this.workerPool
Terminated(w) ==
    [t \in Tasks |->
        IF (\E k \in 1..Len(workerPool) : workerPool[k] = t) /\ w[t].st = "running"
        THEN [w[t] EXCEPT !.st = "terminated"]
        ELSE w[t]]

\* The setTimeout callback of processInParallel (workerService.js 57-69)
Timeout(o) ==
    /\ timeoutId[o] = "armed"
    /\ IF completedWorkers[o] < nChunks[o]
       THEN /\ hasError' = [hasError EXCEPT ![o] = TRUE]
            /\ promise' = [promise EXCEPT ![o] = reject(@, "timeout")]
            /\ worker' = Terminated(worker)
       ELSE UNCHANGED <<hasError, promise, worker>>
    /\ timeoutId' = [timeoutId EXCEPT ![o] = "fired"]
    /\ UNCHANGED <<maxWorkers, activeWorkers, workerPool, taskQueue, nChunks,
                   optMaxWorkers, results, completedWorkers, raised>>
    /\ UNCHANGED <<cacheVars, engineVars>>

PoolNext ==
    \/ \E o \in Ops, len \in 0..MaxRows, optW \in {0} \cup PoolSizes,
         optSize \in 0..MaxRows :
           processInParallel(o, len, optW, optSize)
    \/ \E o \in Ops, i \in Indexes, threw \in BOOLEAN : WorkerMessage(o, i, threw)
    \/ \E o \in Ops, i \in Indexes : WorkerError(o, i)
    \/ \E o \in Ops, i \in Indexes, code \in {0, 1} : WorkerExit(o, i, code)
    \/ \E o \in Ops : Timeout(o)


----------------------------------------------------------------------------
\* CacheService (services/cacheService.js) and the profile request
\* (routes/profile.js)

\* this.ttl = 24 * 60 * 60 * 1000 ms, in hours
ttl == 24
\* the clock advances in steps of half a TTL, MaxTicks times at most
MaxTicks == 3
TickHours == ttl \div 2

\* the default of options.sampleSize
DefaultSampleSize == 5000

\* The request bodies considered: csv "A" is a small document one of whose
\* columns is empty in every row, csv "B" has more rows than the default
\* sample size.
Csvs == {"A", "B"}
Rows(csv) == IF csv = "A" THEN 3 ELSE 6000

\* a property that is absent from a JSON object; the booleans of
\* skipEmptyLines are written "true" and "false"
Undefined == "undefined"

\* options after the defaults of the handler (routes/profile.js 59-64);
\* fullAnalysis, delimiter and skipEmptyLines are left absent
RequestOptions ==
    [useCache : BOOLEAN, enableSampling : BOOLEAN, sampleSize : {DefaultSampleSize},
     fullAnalysis : {FALSE}, delimiter : {Undefined}, skipEmptyLines : {Undefined}]

\* relevantOptions of generateFingerprint:
\* { delimiter: options.delimiter || '', skipEmptyLines: options.skipEmptyLines !== false }
relevantOptions(options) ==
    [delimiter |-> IF options.delimiter \in {Undefined, ""} THEN "" ELSE options.delimiter,
     skipEmptyLines |-> (options.skipEmptyLines # "false")]

\* generateFingerprint with every option of the request in the digest
generateFingerprint_AllOptions(csv, options) ==
    [content |-> csv, delimiter |-> relevantOptions(options).delimiter,
     skipEmptyLines |-> relevantOptions(options).skipEmptyLines,
     sampleSize |-> options.sampleSize]

\* CacheService.generateFingerprint: the sha256 digests are taken to be
\* injective, so the fingerprint is the content together with the two
\* properties that JSON.stringify(relevantOptions) writes, in that order
generateFingerprint(csv, options) ==
    [content |-> csv, delimiter |-> relevantOptions(options).delimiter,
     skipEmptyLines |-> relevantOptions(options).skipEmptyLines]

Fingerprints == {generateFingerprint(c, o) : c \in Csvs, o \in RequestOptions}

\* ---- reports ----
Null == [null |-> TRUE]

\* the record view a report is computed from
View(csv, sampled) == [csv |-> csv, sampled |-> sampled]

\* ProfilerService.calculateCategoricalStats on the first column of the view,
\* as far as the cache is concerned: mode is sortedValues[0]?.[0], undefined
\* when the column has no valid value
CategoricalStatsOf(view) ==
    IF view.csv = "A"
    THEN [type |-> "categorical", mode |-> Undefined]
    ELSE [type |-> "categorical", mode |-> "x"]

\* ProfilerService.profileData as far as the cache is concerned: the report
\* of a record view; summary.totals stands for totalRows, totalColumns, ...
\* which are functions of the view
ReportOf(view) ==
    [columnStats |-> CategoricalStatsOf(view),
     summary |-> [totals |-> view]]

\* JSON.parse(JSON.stringify(m)) on an object: properties whose value is
\* undefined are left out
JsonObject(m) == [k \in {f \in DOMAIN m : m[f] # Undefined} |-> m[k]]

\* JSON.parse(JSON.stringify(report))
JsonRoundTrip(report) == [report EXCEPT !.columnStats = JsonObject(@)]

\* ---- cache state ----
NoEntry == [present |-> FALSE, timestamp |-> 0]
NoFile == [exists |-> FALSE, ok |-> FALSE, mtime |-> 0, timestamp |-> 0, result |-> Null]
NoLookup == [fingerprint |-> Null, outcome |-> "none", returned |-> Null]
NoStore == [intact |-> FALSE, at |-> 0, report |-> Null]
\* a file whose content does not parse; nothing reads its mtime to any effect
CorruptContent == [exists |-> TRUE, ok |-> FALSE, mtime |-> 0, timestamp |-> 0,
                   result |-> Null]
NoReq == [active |-> FALSE]
NoResponse == [status |-> 0, fromCache |-> FALSE, csv |-> "none", useCache |-> FALSE,
               summary |-> Null]

\* the expiry test with >= in place of >
Expired_Inclusive(timestamp) == now - timestamp >= ttl

\* Date.now() - timestamp > this.ttl
Expired(timestamp) == now - timestamp > ttl

\* CacheService.getCachedResult(fingerprint); readOk = FALSE: readFileSync throws
getCachedResult(fp, readOk) ==
    LET cacheInfo == cacheMap[fp]
    IN  IF ~cacheInfo.present
        THEN [result |-> Null, map |-> cacheMap, files |-> files, outcome |-> "noEntry"]
        ELSE IF ~files[fp].exists
        THEN [result |-> Null, map |-> [cacheMap EXCEPT ![fp] = NoEntry],
              files |-> files, outcome |-> "missing"]
        ELSE IF Expired(cacheInfo.timestamp)
        THEN [result |-> Null, map |-> [cacheMap EXCEPT ![fp] = NoEntry],
              files |-> [files EXCEPT ![fp] = NoFile], outcome |-> "expired"]
        ELSE IF ~readOk
        THEN [result |-> Null, map |-> cacheMap, files |-> files, outcome |-> "readError"]
        ELSE IF ~files[fp].ok
        THEN [result |-> Null, map |-> cacheMap, files |-> files, outcome |-> "corrupt"]
        ELSE [result |-> files[fp].result, map |-> cacheMap,
              files |-> [files EXCEPT ![fp].mtime = now], outcome |-> "hit"]

\* cacheResult with the index entry set before the file is written
cacheResult_IndexFirst(fp, result, writeOk, m, f) ==
    IF writeOk
    THEN [stored |-> TRUE,
          files |-> [f EXCEPT ![fp] = [exists |-> TRUE, ok |-> TRUE, mtime |-> now,
                                       timestamp |-> now,
                                       result |-> JsonRoundTrip(result)]],
          map |-> [m EXCEPT ![fp] = [present |-> TRUE, timestamp |-> now]]]
    ELSE [stored |-> FALSE, files |-> f,
          map |-> [m EXCEPT ![fp] = [present |-> TRUE, timestamp |-> now]]]

\* CacheService.cacheResult(fingerprint, result) on index m and files f;
\* writeOk = FALSE: writeFileSync throws
cacheResult(fp, result, writeOk, m, f) ==
    IF writeOk
    THEN [stored |-> TRUE,
          files |-> [f EXCEPT ![fp] = [exists |-> TRUE, ok |-> TRUE, mtime |-> now,
                                       timestamp |-> now,
                                       result |-> JsonRoundTrip(result)]],
          map |-> [m EXCEPT ![fp] = [present |-> TRUE, timestamp |-> now]]]
    ELSE [stored |-> FALSE, files |-> f, map |-> m]

\* CacheService.loadCacheMap on a fresh index
loadCacheMap ==
    [fp \in Fingerprints |->
        IF files[fp].exists /\ ~Expired(files[fp].mtime) /\ files[fp].ok
        THEN [present |-> TRUE, timestamp |-> files[fp].mtime]
        ELSE NoEntry]

\* ---- responses of POST / ----
BoolStr(b) == IF b THEN "true" ELSE "false"

\* { ...cachedResult.summary, cache: { hit: true, retrievalTime } }
HitSummary(cached) ==
    [totals |-> cached.summary.totals,
     cache |-> [hit |-> "true", stored |-> "absent", enabled |-> "absent", used |-> "absent"]]

\* the summary of the response of a profiled request (routes/profile.js 237-251)
MissSummary(report, sampled, useCache, cached) ==
    [totals |-> report.summary.totals,
     processingTime |-> "timing",
     performance |-> "timing",
     sampling |-> [isSampled |-> sampled],
     cache |-> IF useCache
               THEN [hit |-> "false", stored |-> BoolStr(cached), enabled |-> "absent",
                     used |-> "absent"]
               ELSE [hit |-> "absent", stored |-> "absent", enabled |-> BoolStr(useCache),
                     used |-> "false"]]

CacheInit ==
    /\ now = 0
    /\ cacheMap = [fp \in Fingerprints |-> NoEntry]
    /\ files = [fp \in Fingerprints |-> NoFile]
    /\ req = NoReq
    /\ response = NoResponse
    /\ lookup = NoLookup
    /\ stored = [fp \in Fingerprints |-> NoStore]

\* time passes
Tick ==
    /\ now + TickHours <= MaxTicks * TickHours
    /\ now' = now + TickHours
    /\ lookup' = NoLookup
    /\ response' = NoResponse
    \* a store older than the TTL is no longer remembered
    /\ stored' = [fp \in Fingerprints |->
                    IF now' - stored[fp].at > ttl THEN NoStore ELSE stored[fp]]
    /\ UNCHANGED <<cacheMap, files, req>>
    /\ UNCHANGED <<poolVars, engineVars>>

\* POST / up to `await profilerService.profileData` (routes/profile.js 52-201)
RequestStart(csv, options, readOk) ==
    /\ ~req.active
    /\ LET fp == generateFingerprint(csv, options)
           sampled == options.enableSampling /\ Rows(csv) > options.sampleSize
                        /\ ~options.fullAnalysis
       IN IF options.useCache
          THEN LET r == getCachedResult(fp, readOk)
               IN /\ cacheMap' = r.map
                  /\ files' = r.files
                  /\ lookup' = [fingerprint |-> fp, outcome |-> r.outcome,
                                returned |-> r.result]
                  /\ stored' = IF r.outcome = "readError"
                               THEN [stored EXCEPT ![fp] = NoStore]
                               ELSE stored
                  /\ IF r.result # Null
                     THEN /\ response' = [status |-> 200, fromCache |-> TRUE, csv |-> csv,
                                          useCache |-> TRUE,
                                          summary |-> HitSummary(r.result)]
                          /\ req' = NoReq
                     ELSE /\ req' = [active |-> TRUE, csv |-> csv, useCache |-> TRUE,
                                     fingerprint |-> fp, sampled |-> sampled]
                          /\ response' = NoResponse
          ELSE /\ req' = [active |-> TRUE, csv |-> csv, useCache |-> FALSE,
                          fingerprint |-> Null, sampled |-> sampled]
               /\ lookup' = NoLookup
               /\ response' = NoResponse
               /\ UNCHANGED <<cacheMap, files, stored>>
    /\ UNCHANGED now
    /\ UNCHANGED <<poolVars, engineVars>>

\* POST / after profileData has returned (routes/profile.js 202-261)
RequestFinish(writeOk) ==
    /\ req.active
    /\ LET profileResult == ReportOf(View(req.csv, req.sampled))
       IN IF req.useCache /\ req.fingerprint # Null
          THEN LET c == cacheResult(req.fingerprint, profileResult, writeOk, cacheMap, files)
               IN /\ cacheMap' = c.map
                  /\ files' = c.files
                  /\ stored' = IF c.stored
                               THEN [stored EXCEPT ![req.fingerprint] =
                                       [intact |-> TRUE, at |-> now,
                                        report |-> profileResult]]
                               ELSE stored
                  /\ response' = [status |-> 200, fromCache |-> FALSE, csv |-> req.csv,
                                  useCache |-> TRUE,
                                  summary |-> MissSummary(profileResult, req.sampled,
                                                          TRUE, c.stored)]
          ELSE /\ response' = [status |-> 200, fromCache |-> FALSE, csv |-> req.csv,
                               useCache |-> FALSE,
                               summary |-> MissSummary(profileResult, req.sampled,
                                                       FALSE, FALSE)]
               /\ UNCHANGED <<cacheMap, files, stored>>
    /\ req' = NoReq
    /\ lookup' = NoLookup
    /\ UNCHANGED now
    /\ UNCHANGED <<poolVars, engineVars>>

\* the process is restarted: the constructor builds the index from the files
Restart ==
    /\ cacheMap' = loadCacheMap
    /\ req' = NoReq
    /\ lookup' = NoLookup
    /\ response' = NoResponse
    /\ UNCHANGED <<now, files, stored>>
    /\ UNCHANGED <<poolVars, engineVars>>

\* a sweep that evicts the expired index entries and leaves their files
cleanupExpiredEntries_KeepsFiles ==
    /\ cacheMap' = [fp \in Fingerprints |->
                      IF cacheMap[fp].present /\ Expired(cacheMap[fp].timestamp)
                      THEN NoEntry ELSE cacheMap[fp]]
    /\ lookup' = NoLookup
    /\ response' = NoResponse
    /\ UNCHANGED <<now, files, req, stored>>
    /\ UNCHANGED <<poolVars, engineVars>>

\* CacheService.cleanupExpiredEntries, run by the hourly setInterval
cleanupExpiredEntries ==
    /\ cacheMap' = [fp \in Fingerprints |->
                      IF cacheMap[fp].present /\ Expired(cacheMap[fp].timestamp)
                      THEN NoEntry ELSE cacheMap[fp]]
    /\ files' = [fp \in Fingerprints |->
                      IF cacheMap[fp].present /\ Expired(cacheMap[fp].timestamp)
                      THEN NoFile ELSE files[fp]]
    /\ lookup' = NoLookup
    /\ response' = NoResponse
    /\ UNCHANGED <<now, req, stored>>
    /\ UNCHANGED <<poolVars, engineVars>>

\* environment: the content of a cache file is damaged
CorruptFile(fp) ==
    /\ files[fp].exists /\ files[fp].ok
    /\ files' = [files EXCEPT ![fp] = CorruptContent]
    /\ stored' = [stored EXCEPT ![fp] = NoStore]
    /\ lookup' = NoLookup
    /\ response' = NoResponse
    /\ UNCHANGED <<now, cacheMap, req>>
    /\ UNCHANGED <<poolVars, engineVars>>

\* environment: a cache file is removed from the cache directory
RemoveFile(fp) ==
    /\ files[fp].exists
    /\ files' = [files EXCEPT ![fp] = NoFile]
    /\ stored' = [stored EXCEPT ![fp] = NoStore]
    /\ lookup' = NoLookup
    /\ response' = NoResponse
    /\ UNCHANGED <<now, cacheMap, req>>
    /\ UNCHANGED <<poolVars, engineVars>>

CacheNext ==
    \/ Tick
    \/ \E csv \in Csvs, options \in RequestOptions, readOk \in BOOLEAN :
          RequestStart(csv, options, readOk)
    \/ \E writeOk \in BOOLEAN : RequestFinish(writeOk)
    \/ Restart
    \/ cleanupExpiredEntries
    \/ \E fp \in Fingerprints : CorruptFile(fp)
    \/ \E fp \in Fingerprints : RemoveFile(fp)

----------------------------------------------------------------------------
\* CacheService.generateFingerprint on the options a request body can carry

\* the options of a request; sampleSize is the default or a smaller one
FingerprintOptions ==
    [useCache : BOOLEAN, enableSampling : BOOLEAN,
     sampleSize : {DefaultSampleSize, 100},
     delimiter : {Undefined, "", ";"}, skipEmptyLines : {Undefined, "true", "false"}]

\* generateFingerprint has not been called
FingerprintInit ==
    fingerprinted = [last |-> [called |-> FALSE], previous |-> [called |-> FALSE]]

\* cacheService.generateFingerprint(csv, options); the call before it is kept
GenerateFingerprint(csv, options) ==
    /\ fingerprinted' =
          [last |-> [called |-> TRUE, csv |-> csv, options |-> options,
                     fingerprint |-> generateFingerprint(csv, options)],
           previous |-> fingerprinted.last]
    /\ UNCHANGED <<sampling, profiling, comparing, combining>>
    /\ UNCHANGED <<poolVars, cacheVars>>

FingerprintNext ==
    \E csv \in Csvs, options \in FingerprintOptions : GenerateFingerprint(csv, options)

----------------------------------------------------------------------------
\* SamplingService (services/samplingService.js)

\* data.length ranges over 0..MaxData, maxSampleSize over 1..MaxData
MaxData == 3

\* the generator of seededRandom: s = (s * 9301 + 49297) % 233280
Multiplier == 9301
Increment == 49297
Modulus == 233280
\* the default of options.randomSeed
DefaultSeed == 42

\* data.slice(0, 100): the rows that canStratify looks at
ScanRows == 100

\* A record view is a sequence of rows with one column; a row is known by
\* its position, and data[i] is the value of the column in row i, Undefined
\* where the row holds null or has no such property. Beside the short views
\* there is one view longer than the rows canStratify looks at: two values in
\* turn in its first 81 rows and no value in its last 21.
Datasets ==
    UNION {[1..n -> {"a", "b", Undefined}] : n \in 0..MaxData}
        \cup {[i \in 1..(ScanRows + 2) |->
                   IF i > 81 THEN Undefined ELSE IF i % 2 = 1 THEN "a" ELSE "b"]}
SampleOptions ==
    [maxSampleSize : 1..MaxData, stratify : BOOLEAN, randomSeed : {0, 1, DefaultSeed}]

\* the only column of the rows, and no column
GroupColumn == "group"
NoColumn == "null"
\* no generator was created
NoGenerator == -1

\* [...data]: the rows of the view in their order
AllRows(data) == [i \in 1..Len(data) |-> i]

\* a quotient num / den
Fraction(num, den) == [num |-> num, den |-> den]

\* Math.round(a / b) for a >= 0
Round(a, b) == (2 * a + b) \div (2 * b)

\* a generator that continues where the last generator stopped
seededRandom_Shared(seed) ==
    IF sampling.rng # NoGenerator THEN sampling.rng
    ELSE IF seed = 0 THEN 1 ELSE seed

\* seededRandom(seed): let s = seed || 1
seededRandom(seed) == IF seed = 0 THEN 1 ELSE seed

\* s = (s * 9301 + 49297) % 233280, the product taken in two halves so that
\* no intermediate value exceeds 32 bits
NextRandom(s) ==
    ((((s * (Multiplier \div 2)) % Modulus) * 2 + s * (Multiplier % 2)) + Increment)
        % Modulus

\* random() < rate for random() = s / 233280
Below(s, rate) == s * rate.den < rate.num * Modulus

\* the loop of randomSample pushing every row it takes twice
RECURSIVE SampleLoop_Twice(_, _, _, _, _)
SampleLoop_Twice(rows, rate, s, lo, hi) ==
    IF lo > hi THEN [sample |-> <<>>, s |-> s]
    ELSE IF lo = hi
    THEN [sample |-> IF Below(NextRandom(s), rate) THEN <<rows[lo], rows[lo]>>
                     ELSE <<>>,
          s |-> NextRandom(s)]
    ELSE LET Then(left) ==
                LET After(right) == [sample |-> left.sample \o right.sample,
                                     s |-> right.s]
                IN After(SampleLoop_Twice(rows, rate, left.s, (lo + hi) \div 2 + 1, hi))
         IN Then(SampleLoop_Twice(rows, rate, s, lo, (lo + hi) \div 2))

\* the loop of randomSample over the rows lo..hi, the generator being in
\* state s before row lo; the rows are gone through in their order, the range
\* being halved so that a long view is evaluated in a shallow recursion
RECURSIVE SampleLoop(_, _, _, _, _)
SampleLoop(rows, rate, s, lo, hi) ==
    IF lo > hi THEN [sample |-> <<>>, s |-> s]
    ELSE IF lo = hi
    THEN [sample |-> IF Below(NextRandom(s), rate) THEN <<rows[lo]>> ELSE <<>>,
          s |-> NextRandom(s)]
    ELSE LET Then(left) ==
                LET After(right) == [sample |-> left.sample \o right.sample,
                                     s |-> right.s]
                IN After(SampleLoop(rows, rate, left.s, (lo + hi) \div 2 + 1, hi))
         IN Then(SampleLoop(rows, rate, s, lo, (lo + hi) \div 2))

\* SamplingService.randomSample(data, rate, seed); s is the state the
\* generator is left in
randomSample(rows, rate, seed) ==
    IF rate.num >= rate.den THEN [sample |-> rows, s |-> NoGenerator]
    ELSE SampleLoop(rows, rate, seededRandom(seed), 1, Len(rows))

\* new Set(values.filter(v => v !== null && v !== undefined)).size
UniqueCount(data) == Cardinality({data[i] : i \in 1..Len(data)} \ {Undefined})

\* SamplingService.canStratify: some column has 2..20 distinct values in the
\* first 100 rows
canStratify(data) ==
    /\ Len(data) # 0
    /\ UniqueCount(SubSeq(data, 1, Min(ScanRows, Len(data)))) > 1
    /\ UniqueCount(SubSeq(data, 1, Min(ScanRows, Len(data)))) <= 20

\* SamplingService.findStratificationColumn: the statistics are taken over
\* all rows; nullRatio < 0.2 is 5 * (values - nonNullValues) < values; the
\* sort of the candidates has one column at most to order
findStratificationColumn(data) ==
    IF Len(data) = 0 THEN NoColumn
    ELSE IF /\ UniqueCount(data) >= 2
            /\ UniqueCount(data) <= 20
            /\ 5 * Cardinality({i \in 1..Len(data) : data[i] = Undefined}) < Len(data)
    THEN GroupColumn
    ELSE NoColumn

\* row[stratColumn] || 'null' for every row of the view
GroupKeys(data) ==
    [i \in 1..Len(data) |-> IF data[i] = Undefined THEN "null" ELSE data[i]]

\* Object.keys(stratGroups): the values of the column in the order first seen
RECURSIVE FirstSeen(_, _)
FirstSeen(data, n) ==
    IF n = 0 THEN <<>>
    ELSE LET seen == FirstSeen(data, n - 1)
         IN IF \E k \in 1..Len(seen) : seen[k] = data[n] THEN seen
            ELSE Append(seen, data[n])

\* stratGroups[value]: the rows of the view whose key is value
GroupRows(data, value) ==
    SelectSeq(AllRows(data), LAMBDA i : GroupKeys(data)[i] = value)

\* the forEach over Object.entries(stratGroups) for groups 1..k
RECURSIVE SampleGroups(_, _, _, _, _)
SampleGroups(data, groups, rate, seed, k) ==
    IF k = 0 THEN [sample |-> <<>>, s |-> NoGenerator]
    ELSE LET before == SampleGroups(data, groups, rate, seed, k - 1)
             rows == GroupRows(data, groups[k])
             groupSampleSize == Max(1, Round(Len(rows) * rate.num, rate.den))
             groupSample == randomSample(rows, Fraction(groupSampleSize, Len(rows)), seed)
         IN [sample |-> before.sample \o groupSample.sample,
             s |-> IF groupSample.s # NoGenerator THEN groupSample.s ELSE before.s]

\* SamplingService.stratifiedSample(data, rate, seed)
stratifiedSample(data, rate, seed) ==
    IF findStratificationColumn(data) = NoColumn
    THEN randomSample(AllRows(data), rate, seed)
    ELSE LET groups == FirstSeen(GroupKeys(data), Len(data))
         IN SampleGroups(data, groups, rate, seed, Len(groups))

\* createSample with < in place of <= in the comparison with maxSampleSize
createSample_Strict(data, options) ==
    LET N == Len(data)
        samplingRate == Fraction(options.maxSampleSize, N)
        stratified == options.stratify /\ canStratify(data)
        drawn == IF stratified
                 THEN stratifiedSample(data, samplingRate, options.randomSeed)
                 ELSE randomSample(AllRows(data), samplingRate, options.randomSeed)
    IN  IF N = 0
        THEN [sample |-> <<>>, s |-> NoGenerator,
              metadata |-> [samplingRate |-> Fraction(0, 1), originalSize |-> 0,
                            isSampled |-> Undefined, sampleSize |-> Undefined,
                            stratified |-> Undefined]]
        ELSE IF N < options.maxSampleSize
        THEN [sample |-> AllRows(data), s |-> NoGenerator,
              metadata |-> [samplingRate |-> Fraction(1, 1), originalSize |-> N,
                            isSampled |-> "false", sampleSize |-> Undefined,
                            stratified |-> Undefined]]
        ELSE [sample |-> drawn.sample, s |-> drawn.s,
              metadata |-> [samplingRate |-> samplingRate, originalSize |-> N,
                            isSampled |-> "true", sampleSize |-> Len(drawn.sample),
                            stratified |-> BoolStr(stratified)]]

\* SamplingService.createSample(data, options); s is the state in which the
\* last generator of the call was left
createSample(data, options) ==
    LET N == Len(data)
        samplingRate == Fraction(options.maxSampleSize, N)
        stratified == options.stratify /\ canStratify(data)
        drawn == IF stratified
                 THEN stratifiedSample(data, samplingRate, options.randomSeed)
                 ELSE randomSample(AllRows(data), samplingRate, options.randomSeed)
    IN  IF N = 0
        THEN [sample |-> <<>>, s |-> NoGenerator,
              metadata |-> [samplingRate |-> Fraction(0, 1), originalSize |-> 0,
                            isSampled |-> Undefined, sampleSize |-> Undefined,
                            stratified |-> Undefined]]
        ELSE IF N <= options.maxSampleSize
        THEN [sample |-> AllRows(data), s |-> NoGenerator,
              metadata |-> [samplingRate |-> Fraction(1, 1), originalSize |-> N,
                            isSampled |-> "false", sampleSize |-> Undefined,
                            stratified |-> Undefined]]
        ELSE [sample |-> drawn.sample, s |-> drawn.s,
              metadata |-> [samplingRate |-> samplingRate, originalSize |-> N,
                            isSampled |-> "true", sampleSize |-> Len(drawn.sample),
                            stratified |-> BoolStr(stratified)]]

NoSample == [sample |-> <<>>, s |-> NoGenerator, metadata |-> Undefined]

SamplingInit ==
    sampling = [called |-> FALSE, data |-> <<>>,
                options |-> [maxSampleSize |-> 1, stratify |-> TRUE,
                             randomSeed |-> DefaultSeed],
                result |-> NoSample, rng |-> NoGenerator,
                repeated |-> FALSE, again |-> NoSample]

\* samplingService.createSample(data, options); the service keeps nothing
\* between calls, so one call and its repetition are followed
CreateSample(data, options) ==
    /\ ~sampling.called
    /\ LET r == createSample(data, options)
       IN sampling' = [called |-> TRUE, data |-> data, options |-> options,
                       result |-> r,
                       rng |-> IF r.s # NoGenerator THEN r.s ELSE sampling.rng,
                       repeated |-> FALSE, again |-> NoSample]
    /\ UNCHANGED <<fingerprinted, profiling, comparing, combining>>
    /\ UNCHANGED <<poolVars, cacheVars>>

\* the same call is made once more
RepeatSample ==
    /\ sampling.called
    /\ LET r == createSample(sampling.data, sampling.options)
       IN sampling' = [sampling EXCEPT
                         !.rng = IF r.s # NoGenerator THEN r.s ELSE @,
                         !.repeated = TRUE, !.again = r]
    /\ UNCHANGED <<fingerprinted, profiling, comparing, combining>>
    /\ UNCHANGED <<poolVars, cacheVars>>

SamplingNext ==
    \/ \E data \in Datasets, options \in SampleOptions : CreateSample(data, options)
    \/ RepeatSample

----------------------------------------------------------------------------
\* ProfilerService (services/profilerService.js)

\* data.length ranges over 0..MaxRecords
MaxRecords == 2
\* topValues: sortedValues.slice(0, 10)
TopLimit == 10

\* the result of a call: a value returned or an exception raised
Return(value) == [raised |-> FALSE, value |-> value]
Raise(message) == [raised |-> TRUE, message |-> message]

\* A cell is a JSON value: t is its typeof, v is String(value), and index is
\* the array index that the string v denotes, -1 when it denotes none. A
\* number cell holds the number `index`.
Cell(t, v, index) == [t |-> t, v |-> v, index |-> index]
NullCell == Cell("null", "null", -1)
\* the row has no property of the column's name
UndefinedCell == Cell("undefined", "undefined", -1)
EmptyCell == Cell("string", "", -1)
\* an object whose toString property is not callable, as JSON.parse gives for
\* {"toString": 1}: String(value) raises a TypeError
PoisonCell == Cell("object", "TypeError", -1)

\* the column names of a row, in the order of Object.keys
Columns == <<"a", "b">>
\* the rows of a record view, by the cells of their columns
RecordRows ==
    [a : {NullCell, UndefinedCell, EmptyCell, Cell("number", "1", 1),
          Cell("string", "x", -1), Cell("string", "1", 1), Cell("string", "2", 2)},
     b : {UndefinedCell, Cell("number", "1", 1), Cell("string", "x", -1), PoisonCell}]

\* v !== null && v !== undefined && v !== ''
IsValid(v) == v.t \notin {"null", "undefined"} /\ v # EmptyCell

\* typeof v === 'number' && !isNaN(v)
IsNumber(v) == v.t = "number"

\* the sum of the numbers of cells 1..n
RECURSIVE Sum(_, _)
Sum(values, n) == IF n = 0 THEN 0 ELSE Sum(values, n - 1) + values[n].index

RECURSIVE SumSquares(_, _)
SumSquares(values, n) ==
    IF n = 0 THEN 0 ELSE SumSquares(values, n - 1) + values[n].index * values[n].index

\* ProfilerService.calculateNumericStats: min, max, mean and variance (stdDev
\* is 0 exactly when variance is); the quantiles, the outliers and the higher
\* moments are left out
calculateNumericStats(values) ==
    [min |-> CHOOSE m \in {values[i].index : i \in 1..Len(values)} :
                \A i \in 1..Len(values) : m <= values[i].index,
     max |-> CHOOSE m \in {values[i].index : i \in 1..Len(values)} :
                \A i \in 1..Len(values) : m >= values[i].index,
     mean |-> Fraction(Sum(values, Len(values)), Len(values)),
     variance |-> Fraction(Len(values) * SumSquares(values, Len(values))
                             - Sum(values, Len(values)) * Sum(values, Len(values)),
                           Len(values) * Len(values))]

\* String(v) as a property name: the string and the array index it denotes
KeyOf(v) == [key |-> v.v, index |-> v.index]

\* the keys that are array indexes, in ascending order
RECURSIVE AscendingKeys(_)
AscendingKeys(keys) ==
    IF Len(keys) = 0 THEN <<>>
    ELSE LET least == CHOOSE k \in {keys[i] : i \in 1..Len(keys)} :
                          \A i \in 1..Len(keys) : k.index <= keys[i].index
         IN <<least>> \o AscendingKeys(SelectSeq(keys, LAMBDA k : k # least))

\* Object.entries(valueCounts): the keys that are array indexes come first,
\* in ascending order, then the other keys in the order they were created
OwnKeys(keys) ==
    AscendingKeys(SelectSeq(keys, LAMBDA k : k.index >= 0))
        \o SelectSeq(keys, LAMBDA k : k.index < 0)

\* valueCounts[key]
CountOf(values, key) == Len(SelectSeq(values, LAMBDA v : v.v = key))

\* Array.prototype.sort(([,a], [,b]) => b - a), which is stable, on entries
\* 1..n: each entry goes behind the entries whose count is not smaller
RECURSIVE SortByCount(_, _)
SortByCount(entries, n) ==
    IF n = 0 THEN <<>>
    ELSE LET sorted == SortByCount(entries, n - 1)
             e == entries[n]
             ahead == Len(SelectSeq(sorted, LAMBDA x : x.count >= e.count))
         IN SubSeq(sorted, 1, ahead) \o <<e>> \o SubSeq(sorted, ahead + 1, Len(sorted))

\* ProfilerService.calculateCategoricalStats(values); entropy is left out
calculateCategoricalStats(values) ==
    LET Entries(keys) ==
            [i \in 1..Len(keys) |->
               [value |-> keys[i].key, count |-> CountOf(values, keys[i].key)]]
        Sorted(entries) == SortByCount(entries, Len(entries))
        Stats(sortedValues) ==
            [topValues |-> SubSeq(sortedValues, 1, Min(TopLimit, Len(sortedValues))),
             mode |-> IF Len(sortedValues) = 0 THEN Undefined ELSE sortedValues[1].value,
             modeCount |-> IF Len(sortedValues) = 0 THEN 0 ELSE sortedValues[1].count,
             modePercent |-> IF Len(sortedValues) # 0 /\ Len(values) > 0
                             THEN Fraction(sortedValues[1].count * 100, Len(values))
                             ELSE Fraction(0, 1)]
    IN  IF \E i \in 1..Len(values) : values[i] = PoisonCell
        THEN Raise(PoisonCell.v)
        ELSE Return(Stats(Sorted(Entries(OwnKeys(
                 FirstSeen([i \in 1..Len(values) |-> KeyOf(values[i])], Len(values)))))))

\* the values of the column in rows 1..Len(data)
ColumnValues(data, columnName) == [i \in 1..Len(data) |-> data[i][columnName]]

\* new Set(nonNullValues).size: primitive values are told apart by type and
\* value, objects are all distinct
SetSize(values) ==
    Cardinality({values[i] : i \in {j \in 1..Len(values) : values[j].t # "object"}})
        + Len(SelectSeq(values, LAMBDA v : v.t = "object"))

\* profileColumn with the empty string counted as a valid value
profileColumn_EmptyValid(data, columnName) ==
    LET Stats(allValues, nonNullValues, numericValues, isNumeric) ==
            LET missingCount == Len(allValues) - Len(nonNullValues)
                baseStats ==
                    [type |-> IF isNumeric THEN "numeric" ELSE "categorical",
                     totalCount |-> Len(allValues),
                     validCount |-> Len(nonNullValues),
                     missingCount |-> missingCount,
                     missingPercent |-> Fraction(missingCount * 100, Len(allValues)),
                     unique |-> SetSize(nonNullValues),
                     uniquePercent |-> IF Len(nonNullValues) > 0
                                       THEN Fraction(SetSize(nonNullValues) * 100,
                                                     Len(nonNullValues))
                                       ELSE Fraction(0, 1)]
                Merge(categorical) ==
                    IF categorical.raised THEN categorical
                    ELSE Return(Spread(baseStats, categorical.value))
            IN  IF isNumeric /\ Len(numericValues) > 0
                THEN Return(Spread(baseStats, calculateNumericStats(numericValues)))
                ELSE Merge(calculateCategoricalStats(nonNullValues))
        Numeric(allValues, nonNullValues, numericValues) ==
            Stats(allValues, nonNullValues, numericValues,
                  Len(numericValues) > 0 /\ 2 * Len(numericValues) > Len(nonNullValues))
        NonNull(allValues, nonNullValues) ==
            Numeric(allValues, nonNullValues, SelectSeq(nonNullValues, IsNumber))
        All(allValues) == NonNull(allValues, SelectSeq(allValues,
                                  LAMBDA v : v.t \notin {"null", "undefined"}))
    IN All(ColumnValues(data, columnName))

\* ProfilerService.profileColumn(data, columnName): allValues, nonNullValues,
\* numericValues and isNumeric are computed in this order and handed on
profileColumn(data, columnName) ==
    LET Stats(allValues, nonNullValues, numericValues, isNumeric) ==
            LET missingCount == Len(allValues) - Len(nonNullValues)
                baseStats ==
                    [type |-> IF isNumeric THEN "numeric" ELSE "categorical",
                     totalCount |-> Len(allValues),
                     validCount |-> Len(nonNullValues),
                     missingCount |-> missingCount,
                     missingPercent |-> Fraction(missingCount * 100, Len(allValues)),
                     unique |-> SetSize(nonNullValues),
                     uniquePercent |-> IF Len(nonNullValues) > 0
                                       THEN Fraction(SetSize(nonNullValues) * 100,
                                                     Len(nonNullValues))
                                       ELSE Fraction(0, 1)]
                Merge(categorical) ==
                    IF categorical.raised THEN categorical
                    ELSE Return(Spread(baseStats, categorical.value))
            IN  IF isNumeric /\ Len(numericValues) > 0
                THEN Return(Spread(baseStats, calculateNumericStats(numericValues)))
                ELSE Merge(calculateCategoricalStats(nonNullValues))
        Numeric(allValues, nonNullValues, numericValues) ==
            Stats(allValues, nonNullValues, numericValues,
                  Len(numericValues) > 0 /\ 2 * Len(numericValues) > Len(nonNullValues))
        NonNull(allValues, nonNullValues) ==
            Numeric(allValues, nonNullValues, SelectSeq(nonNullValues, IsNumber))
        All(allValues) == NonNull(allValues, SelectSeq(allValues, IsValid))
    IN All(ColumnValues(data, columnName))

\* Array.prototype.sort((a, b) => rank(b) - rank(a)), which is stable, on
\* entries 1..n that carry their rank
RECURSIVE SortByRank(_, _)
SortByRank(entries, n) ==
    IF n = 0 THEN <<>>
    ELSE LET sorted == SortByRank(entries, n - 1)
             e == entries[n]
             ahead == Len(SelectSeq(sorted, LAMBDA x : x.rank >= e.rank))
         IN SubSeq(sorted, 1, ahead) \o <<e>> \o SubSeq(sorted, ahead + 1, Len(sorted))

\* the numbers of the column, as calculateCorrelations collects them
NumbersOf(data, column) == SelectSeq(ColumnValues(data, column), IsNumber)

\* the sum of x[i] * y[i] over cells 1..n
RECURSIVE SumProducts(_, _, _)
SumProducts(x, y, n) ==
    IF n = 0 THEN 0 ELSE SumProducts(x, y, n - 1) + x[n].index * y[n].index

Abs(a) == IF a < 0 THEN -a ELSE a

\* pearsonCorrelation(x, y) in hundredths, truncated towards zero; 0 when a
\* series is empty or constant (denomX or denomY is 0)
pearsonCorrelation(x, y) ==
    LET n == Len(x)
        sxy == n * SumProducts(x, y, n) - Sum(x, n) * Sum(y, n)
        sxx == n * SumSquares(x, n) - Sum(x, n) * Sum(x, n)
        syy == n * SumSquares(y, n) - Sum(y, n) * Sum(y, n)
    IN  IF n = 0 \/ sxx = 0 \/ syy = 0 THEN 0
        ELSE LET r == CHOOSE h \in 0..100 :
                        /\ h * h * sxx * syy <= 10000 * sxy * sxy
                        /\ h = 100 \/ (h + 1) * (h + 1) * sxx * syy > 10000 * sxy * sxy
             IN IF sxy < 0 THEN -r ELSE r

\* the index pairs (i, j), i < j <= n, in the order of the two nested loops
RECURSIVE PairsUpTo(_, _)
PairsUpTo(i, n) ==
    IF i = 0 THEN <<>>
    ELSE PairsUpTo(i - 1, n) \o [k \in 1..(n - i) |-> <<i, i + k>>]

\* one correlation record; pair stands for the string `${colA} & ${colB}`
Correlation(colA, colB, corr, sampleSize) ==
    [pair |-> <<colA, colB>>, colA |-> colA, colB |-> colB, correlation |-> corr,
     strength |-> Abs(corr), sampleSize |-> sampleSize]

\* correlations.sort((a, b) => b.strength - a.strength)
SortByStrength(correlations) ==
    LET ranked == [i \in 1..Len(correlations) |->
                     [rank |-> correlations[i].strength, item |-> correlations[i]]]
        sorted == SortByRank(ranked, Len(ranked))
    IN [i \in 1..Len(sorted) |-> sorted[i].item]

\* the result object of calculateCorrelations, built from the correlations in
\* the order they were pushed (profilerService.js 306-319); coefficients are
\* in hundredths
CorrelationReport(correlations) ==
    LET sortedCorrelations == SortByStrength(correlations)
        positive == SelectSeq(sortedCorrelations, LAMBDA c : c.correlation > 0)
        negative == SelectSeq(sortedCorrelations, LAMBDA c : c.correlation < 0)
    IN [all |-> sortedCorrelations,
        strong |-> SelectSeq(sortedCorrelations, LAMBDA c : c.strength > 70),
        moderate |-> SelectSeq(sortedCorrelations,
                               LAMBDA c : c.strength > 30 /\ c.strength <= 70),
        weak |-> SelectSeq(sortedCorrelations, LAMBDA c : c.strength <= 30),
        positive |-> SubSeq(positive, 1, Min(5, Len(positive))),
        negative |-> SubSeq(negative, 1, Min(5, Len(negative)))]

\* ProfilerService.calculateCorrelations(data, numericColumns)
calculateCorrelations(data, numericColumns) ==
    LET pairs == PairsUpTo(Len(numericColumns), Len(numericColumns))
        Measured(p) ==
            /\ Len(NumbersOf(data, numericColumns[p[1]])) > 2
            /\ Len(NumbersOf(data, numericColumns[p[2]])) > 2
        One(p) ==
            LET valuesA == NumbersOf(data, numericColumns[p[1]])
                valuesB == NumbersOf(data, numericColumns[p[2]])
                minLength == Min(Len(valuesA), Len(valuesB))
            IN Correlation(numericColumns[p[1]], numericColumns[p[2]],
                           pearsonCorrelation(SubSeq(valuesA, 1, minLength),
                                              SubSeq(valuesB, 1, minLength)),
                           minLength)
        measured == SelectSeq(pairs, Measured)
    IN CorrelationReport([k \in 1..Len(measured) |-> One(measured[k])])

\* one insight; the message is left out, column names the column it is about
Insight(type, category, severity, column) ==
    [type |-> type, category |-> category, severity |-> severity, column |-> column]

\* severityOrder = { high: 3, medium: 2, low: 1 }
severityOrder(severity) ==
    IF severity = "high" THEN 3 ELSE IF severity = "medium" THEN 2 ELSE 1

\* insights.sort by descending severity
SortBySeverity(insights) ==
    LET ranked == [i \in 1..Len(insights) |->
                     [rank |-> severityOrder(insights[i].severity), item |-> insights[i]]]
        sorted == SortByRank(ranked, Len(ranked))
    IN [i \in 1..Len(sorted) |-> sorted[i].item]

\* a comparison with a property that the object lacks is false
Has(stats, field) == field \in DOMAIN stats

\* num / den > bound
Exceeds(fraction, bound) == fraction.num > bound * fraction.den

\* the insights of the first forEach for columns 1..n (profilerService.js
\* 326-370); stdDev === 0 is variance = 0, and the outlier insight is left out
RECURSIVE ColumnInsights(_, _)
ColumnInsights(columnStats, n) ==
    IF n = 0 THEN <<>>
    ELSE LET col == columnStats[n].column
             stats == columnStats[n].stats
         IN ColumnInsights(columnStats, n - 1)
            \o (IF Has(stats, "missingPercent") /\ Exceeds(stats.missingPercent, 30)
                THEN <<Insight("warning", "Data Quality", "high", col)>> ELSE <<>>)
            \o (IF stats.type = "categorical" /\ stats.unique = 1
                THEN <<Insight("warning", "Feature Engineering", "high", col)>>
                ELSE <<>>)
            \o (IF stats.type = "categorical" /\ stats.unique = stats.validCount
                THEN <<Insight("info", "Feature Engineering", "low", col)>> ELSE <<>>)
            \o (IF stats.type = "numeric" /\ stats.variance.num = 0
                THEN <<Insight("warning", "Data Quality", "high", col)>> ELSE <<>>)

\* the insights of the second forEach for columns 1..n (profilerService.js
\* 398-408)
RECURSIVE CardinalityInsights(_, _)
CardinalityInsights(columnStats, n) ==
    IF n = 0 THEN <<>>
    ELSE LET col == columnStats[n].column
             stats == columnStats[n].stats
         IN CardinalityInsights(columnStats, n - 1)
            \o (IF /\ stats.type = "categorical"
                   /\ Exceeds(stats.uniquePercent, 90)
                   /\ stats.unique > 100
                THEN <<Insight("info", "Feature Engineering", "medium", col)>>
                ELSE <<>>)

\* the sum of the missingPercent numerators of columns 1..n
RECURSIVE SumMissing(_, _)
SumMissing(columns, n) ==
    IF n = 0 THEN 0 ELSE SumMissing(columns, n - 1) + columns[n].stats.missingPercent.num

\* ProfilerService.generateInsights(columnStats, correlations); columnStats is
\* the sequence of Object.entries(columnStats)
generateInsights(columnStats, correlations) ==
    LET numericColumns == SelectSeq(columnStats, LAMBDA e : e.stats.type = "numeric")
        \* every missingPercent of a report has the same denominator data.length
        avgMissing == Fraction(SumMissing(numericColumns, Len(numericColumns)),
                               numericColumns[1].stats.missingPercent.den
                                 * Len(numericColumns))
    IN SortBySeverity(
         ColumnInsights(columnStats, Len(columnStats))
         \o (IF Len(correlations.strong) > 0
             THEN <<Insight("insight", "Multicollinearity", "medium", "")>> ELSE <<>>)
         \o (IF Len(numericColumns) > 0 /\ Exceeds(avgMissing, 15)
             THEN <<Insight("warning", "Data Quality", "high", "")>> ELSE <<>>)
         \o CardinalityInsights(columnStats, Len(columnStats)))

\* the record an exception of profileColumn leaves in columnStats
UnknownStats(message) == [type |-> "unknown", count |-> 0, unique |-> 0, error |-> message]

\* Object.keys(data[0]): the columns that the first row has
KeysOf(row) == SelectSeq(Columns, LAMBDA c : row[c] # UndefinedCell)

\* col.missingCount || 0, summed over columns 1..n
RECURSIVE TotalMissing(_, _)
TotalMissing(columnStats, n) ==
    IF n = 0 THEN 0
    ELSE TotalMissing(columnStats, n - 1)
           + (IF Has(columnStats[n].stats, "missingCount")
              THEN columnStats[n].stats.missingCount ELSE 0)

\* profileData without the try/catch around profileColumn: the exception of a
\* column ends the call
profileData_Propagates(data) ==
    LET Entry(column, r) ==
            [column |-> column,
             stats |-> IF r.raised THEN UnknownStats(r.message) ELSE r.value]
        Report(keys, columnStats, numericColumns, correlations) ==
            [columnStats |-> columnStats,
             correlations |-> correlations,
             insights |-> generateInsights(columnStats, correlations),
             summary |-> [totalRows |-> Len(data),
                          totalColumns |-> Len(keys),
                          numericColumns |-> Len(numericColumns),
                          categoricalColumns |-> Len(keys) - Len(numericColumns),
                          totalMissingValues |->
                              TotalMissing(columnStats, Len(columnStats))]]
        Correlated(keys, columnStats, numericColumns) ==
            Report(keys, columnStats, numericColumns,
                   calculateCorrelations(data, numericColumns))
        NamesOf(numeric) == [i \in 1..Len(numeric) |-> numeric[i].column]
        Profiled(keys, columnStats) ==
            Correlated(keys, columnStats,
                       NamesOf(SelectSeq(columnStats,
                                         LAMBDA e : e.stats.type = "numeric")))
        Keyed(keys) ==
            Profiled(keys, [i \in 1..Len(keys) |->
                              Entry(keys[i], profileColumn(data, keys[i]))])
    IN  IF Len(data) = 0 THEN Raise("No data to profile")
        ELSE IF \E i \in 1..Len(KeysOf(data[1])) :
                   profileColumn(data, KeysOf(data[1])[i]).raised
        THEN Raise("Failed to profile column")
        ELSE Return(Keyed(KeysOf(data[1])))

\* ProfilerService.profileData(data, options): keys, columnStats,
\* numericColumns and correlations are computed in this order and handed on
profileData(data) ==
    LET Entry(column, r) ==
            [column |-> column,
             stats |-> IF r.raised THEN UnknownStats(r.message) ELSE r.value]
        Report(keys, columnStats, numericColumns, correlations) ==
            [columnStats |-> columnStats,
             correlations |-> correlations,
             insights |-> generateInsights(columnStats, correlations),
             summary |-> [totalRows |-> Len(data),
                          totalColumns |-> Len(keys),
                          numericColumns |-> Len(numericColumns),
                          categoricalColumns |-> Len(keys) - Len(numericColumns),
                          totalMissingValues |->
                              TotalMissing(columnStats, Len(columnStats))]]
        Correlated(keys, columnStats, numericColumns) ==
            Report(keys, columnStats, numericColumns,
                   calculateCorrelations(data, numericColumns))
        NamesOf(numeric) == [i \in 1..Len(numeric) |-> numeric[i].column]
        Profiled(keys, columnStats) ==
            Correlated(keys, columnStats,
                       NamesOf(SelectSeq(columnStats,
                                         LAMBDA e : e.stats.type = "numeric")))
        Keyed(keys) ==
            Profiled(keys, [i \in 1..Len(keys) |->
                              Entry(keys[i], profileColumn(data, keys[i]))])
    IN  IF Len(data) = 0 THEN Raise("No data to profile")
        ELSE Return(Keyed(KeysOf(data[1])))

NoOutcome == [raised |-> FALSE, value |-> Null]

ProfilerInit == profiling = [data |-> <<>>, profiled |-> FALSE, outcome |-> NoOutcome]

\* the next row of the record view; the view that a call has profiled may
\* grow and be profiled by a later call
AddRow(row) ==
    /\ Len(profiling.data) < MaxRecords
    /\ profiling' = [data |-> Append(profiling.data, row), profiled |-> FALSE,
                     outcome |-> NoOutcome]
    /\ UNCHANGED <<fingerprinted, sampling, comparing, combining>>
    /\ UNCHANGED <<poolVars, cacheVars>>

\* profilerService.profileData(data, options) on the record view received
ProfileData ==
    /\ ~profiling.profiled
    /\ profiling' = [profiling EXCEPT !.profiled = TRUE,
                                      !.outcome = profileData(profiling.data)]
    /\ UNCHANGED <<fingerprinted, sampling, comparing, combining>>
    /\ UNCHANGED <<poolVars, cacheVars>>

ProfilerNext ==
    \/ \E row \in RecordRows : AddRow(row)
    \/ ProfileData

----------------------------------------------------------------------------
\* routes/compare.js

\* the index of the entry of columnStats for column col, 0 when there is none
IndexOf(columnStats, col) ==
    IF \E i \in 1..Len(columnStats) : columnStats[i].column = col
    THEN CHOOSE i \in 1..Len(columnStats) : columnStats[i].column = col
    ELSE 0

\* Object.keys(profile.columnStats)
ColumnNames(profile) == [i \in 1..Len(profile.columnStats) |-> profile.columnStats[i].column]

Includes(names, col) == \E i \in 1..Len(names) : names[i] = col

\* a - b for quotients
Minus(a, b) == Fraction(a.num * b.den - b.num * a.den, a.den * b.den)

\* the entry of columnComparisons for a common column (compare.js 92-138);
\* of the numeric changes only meanPercent is kept, and the categorical
\* changes are left out
ColumnComparison(column, stats1, stats2) ==
    LET typeChanged == stats1.type # stats2.type
        bothCounted == Has(stats1, "missingCount") /\ Has(stats2, "missingCount")
        bothNumeric == stats1.type = "numeric" /\ stats2.type = "numeric"
    IN [column |-> column, type1 |-> stats1.type, type2 |-> stats2.type,
        changes |->
          [typeChanged |-> typeChanged,
           missingCountDiff |-> IF bothCounted
                                THEN stats2.missingCount - stats1.missingCount ELSE 0,
           missingPercentDiff |-> IF bothCounted
                                  THEN Minus(stats2.missingPercent, stats1.missingPercent)
                                  ELSE Fraction(0, 1),
           uniqueValuesDiff |-> stats2.unique - stats1.unique,
           meanPercent |-> IF bothNumeric /\ stats1.mean.num # 0
                           THEN Fraction((stats2.mean.num * stats1.mean.den
                                            - stats1.mean.num * stats2.mean.den) * 100,
                                         stats2.mean.den * Abs(stats1.mean.num))
                           ELSE Fraction(0, 1)]]

\* pairMap.get(pair): the last correlation of the report with that pair
HasPair(correlations, pair) == \E i \in 1..Len(correlations) : correlations[i].pair = pair
GetPair(correlations, pair) ==
    correlations[CHOOSE i \in 1..Len(correlations) :
                    /\ correlations[i].pair = pair
                    /\ \A j \in (i + 1)..Len(correlations) : correlations[j].pair # pair]

\* the entry of `changes` for one pair (compare.js 219-251)
PairChange(correlations1, correlations2, pair) ==
    IF ~HasPair(correlations1, pair)
    THEN [pair |-> pair, kind |-> "onlyInProfile2", diff |-> 0, significant |-> FALSE,
          signChange |-> FALSE]
    ELSE IF ~HasPair(correlations2, pair)
    THEN [pair |-> pair, kind |-> "onlyInProfile1", diff |-> 0, significant |-> FALSE,
          signChange |-> FALSE]
    ELSE LET corr1 == GetPair(correlations1, pair).correlation
             corr2 == GetPair(correlations2, pair).correlation
         IN [pair |-> pair, kind |-> "both", diff |-> corr2 - corr1,
             significant |-> Abs(corr2 - corr1) > 20,
             signChange |-> (corr1 > 0 /\ corr2 < 0) \/ (corr1 < 0 /\ corr2 > 0)]

\* compareCorrelations(correlations1, correlations2); coefficients in hundredths
compareCorrelations(correlations1, correlations2) ==
    LET listed == [i \in 1..Len(correlations1) |-> correlations1[i].pair]
                    \o [i \in 1..Len(correlations2) |-> correlations2[i].pair]
        allPairs == FirstSeen(listed, Len(listed))
        changes == [i \in 1..Len(allPairs) |->
                      PairChange(correlations1, correlations2, allPairs[i])]
        both == SelectSeq(changes, LAMBDA c : c.kind = "both")
        ranked == [i \in 1..Len(both) |-> [rank |-> Abs(both[i].diff), item |-> both[i]]]
        sorted == SortByRank(ranked, Len(ranked))
    IN [added |-> SelectSeq(changes, LAMBDA c : c.kind = "onlyInProfile2"),
        removed |-> SelectSeq(changes, LAMBDA c : c.kind = "onlyInProfile1"),
        changed |-> [i \in 1..Len(sorted) |-> sorted[i].item]]

\* generateComparisonInsights(profile1, profile2, comparison): the argument
\* is read through comparison.correlations.changed, which raises a TypeError
\* when the object has no property `correlations`
generateComparisonInsights(profile1, profile2, comparison) ==
    LET percentChange == Fraction(Abs(comparison.rowCountDiff) * 100,
                                  profile1.summary.totalRows)
        typeChanges == SelectSeq(comparison.columnComparisons,
                                 LAMBDA c : c.changes.typeChanged)
        missingIncreases == SelectSeq(comparison.columnComparisons,
                                      LAMBDA c : Exceeds(c.changes.missingPercentDiff, 5))
        numericChanges ==
            SelectSeq(comparison.columnComparisons,
                      LAMBDA c : /\ c.type1 = "numeric" /\ c.type2 = "numeric"
                                 /\ Abs(c.changes.meanPercent.num)
                                      > 20 * c.changes.meanPercent.den)
        before ==
            (IF Abs(comparison.rowCountDiff) > 0
             THEN <<Insight("change", "Data Size",
                            IF Exceeds(percentChange, 50) THEN "high"
                            ELSE IF Exceeds(percentChange, 20) THEN "medium" ELSE "low",
                            "")>>
             ELSE <<>>)
            \o (IF Len(comparison.uniqueToProfile1) > 0
                THEN <<Insight("removed", "Column Structure", "high", "")>> ELSE <<>>)
            \o (IF Len(comparison.uniqueToProfile2) > 0
                THEN <<Insight("added", "Column Structure", "high", "")>> ELSE <<>>)
            \o (IF Len(typeChanges) > 0
                THEN <<Insight("changed", "Data Types", "high", "")>> ELSE <<>>)
            \o (IF Len(missingIncreases) > 0
                THEN <<Insight("warning", "Data Quality", "medium", "")>> ELSE <<>>)
            \o (IF Len(numericChanges) > 0
                THEN <<Insight("change", "Numeric Distributions", "medium", "")>>
                ELSE <<>>)
    IN  IF ~Has(comparison, "correlations")
        THEN Raise("TypeError")
        ELSE LET changed == comparison.correlations.changed
             IN Return(SortBySeverity(
                  before
                  \o (IF \E i \in 1..Len(changed) : changed[i].significant
                      THEN <<Insight("change", "Relationships", "medium", "")>> ELSE <<>>)
                  \o (IF \E i \in 1..Len(changed) : changed[i].signChange
                      THEN <<Insight("warning", "Relationships", "high", "")>>
                      ELSE <<>>)))

\* compareProfiles(profile1, profile2)
compareProfiles(profile1, profile2) ==
    LET columns1 == ColumnNames(profile1)
        columns2 == ColumnNames(profile2)
        commonColumns == SelectSeq(columns1, LAMBDA col : Includes(columns2, col))
        uniqueToProfile1 == SelectSeq(columns1, LAMBDA col : ~Includes(columns2, col))
        uniqueToProfile2 == SelectSeq(columns2, LAMBDA col : ~Includes(columns1, col))
        rowCountDiff == profile2.summary.totalRows - profile1.summary.totalRows
        columnComparisons ==
            [i \in 1..Len(commonColumns) |->
               ColumnComparison(
                 commonColumns[i],
                 profile1.columnStats[IndexOf(profile1.columnStats, commonColumns[i])].stats,
                 profile2.columnStats[IndexOf(profile2.columnStats, commonColumns[i])].stats)]
        correlationChanges == compareCorrelations(profile1.correlations.all,
                                                  profile2.correlations.all)
        insights == generateComparisonInsights(profile1, profile2,
                      [columnComparisons |-> columnComparisons,
                       uniqueToProfile1 |-> uniqueToProfile1,
                       uniqueToProfile2 |-> uniqueToProfile2,
                       rowCountDiff |-> rowCountDiff,
                       correlationChanges |-> correlationChanges])
    IN  IF insights.raised THEN insights
        ELSE Return(
               [summary |-> [rowCountDiff |-> rowCountDiff,
                             columnCountDiff |-> profile2.summary.totalColumns
                                                   - profile1.summary.totalColumns,
                             commonColumnCount |-> Len(commonColumns),
                             significantChanges |->
                                 Len(SelectSeq(insights.value,
                                               LAMBDA i : i.severity = "high"))],
                columns |-> [common |-> commonColumns,
                             uniqueToProfile1 |-> uniqueToProfile1,
                             uniqueToProfile2 |-> uniqueToProfile2,
                             comparisons |-> columnComparisons],
                correlations |-> correlationChanges,
                insights |-> insights.value])

\* the status the error middleware of the server answers with when the
\* error carries none: error.status || 500
InternalServerError == 500
\* res.status(400) of the validation
BadRequest == 400

\* the datasets of a comparison request: the empty view and views of one row
NumberOne == Cell("number", "1", 1)
CompareViews ==
    {<<>>, <<[a |-> NumberOne, b |-> NumberOne]>>,
     <<[a |-> Cell("string", "x", -1), b |-> PoisonCell]>>}
\* has1 and has2 tell whether the body has the properties dataset1, dataset2
CompareBodies ==
    [has1 : BOOLEAN, dataset1 : CompareViews, has2 : BOOLEAN, dataset2 : CompareViews]

\* The reports compareProfiles is applied to: the reports of the views of n
\* rows of ones, with the correlations put to given coefficients (the number
\* cells of the record views all hold 1, so their own coefficient is 0).
Coefficients == {-50, 10, 60}
CorrelationLists ==
    {<<>>} \cup {<<Correlation(p[1], p[2], r, 3)>> :
                    p \in {<<"a", "b">>, <<"b", "a">>}, r \in Coefficients}
OnesView(n) == [i \in 1..n |-> [a |-> NumberOne, b |-> NumberOne]]
Reports ==
    {[profileData(OnesView(n)).value EXCEPT !.correlations = CorrelationReport(cs)] :
        n \in {3, 4}, cs \in CorrelationLists}

CompareInit ==
    comparing = [kind |-> "none", profile1 |-> Null, profile2 |-> Null,
                 body |-> Null, outcome |-> NoOutcome, status |-> 0,
                 engineRan |-> FALSE]

\* compareProfiles(profile1, profile2) on two reports
CompareProfiles(profile1, profile2) ==
    /\ comparing.kind # "awaiting"
    /\ comparing' = [kind |-> "compareProfiles", profile1 |-> profile1,
                     profile2 |-> profile2, body |-> Null,
                     outcome |-> compareProfiles(profile1, profile2),
                     status |-> 0, engineRan |-> FALSE]
    /\ UNCHANGED <<fingerprinted, sampling, profiling, combining>>
    /\ UNCHANGED <<poolVars, cacheVars>>

\* router.post('/') of routes/compare.js up to `await Promise.all`: the
\* validation, and both profileData calls, which are made before the handler
\* waits for either
CompareRequest(body) ==
    /\ comparing.kind # "awaiting"
    /\ comparing' =
         IF ~body.has1 \/ ~body.has2
         THEN [kind |-> "request", profile1 |-> Null, profile2 |-> Null,
               body |-> body, outcome |-> NoOutcome, status |-> BadRequest,
               engineRan |-> FALSE]
         ELSE [kind |-> "awaiting", profile1 |-> profileData(body.dataset1),
               profile2 |-> profileData(body.dataset2),
               body |-> body, outcome |-> NoOutcome, status |-> 0,
               engineRan |-> Len(body.dataset1) > 0 \/ Len(body.dataset2) > 0]
    /\ UNCHANGED <<fingerprinted, sampling, profiling, combining>>
    /\ UNCHANGED <<poolVars, cacheVars>>

\* the handler after `await Promise.all`: an exception of profileData or of
\* compareProfiles reaches next(error), and the error middleware answers with
\* error.status || 500
CompareRespond ==
    /\ comparing.kind = "awaiting"
    /\ LET profile1 == comparing.profile1
           profile2 == comparing.profile2
           outcome == IF profile1.raised THEN profile1
                      ELSE IF profile2.raised THEN profile2
                      ELSE compareProfiles(profile1.value, profile2.value)
       IN comparing' = [comparing EXCEPT
                          !.kind = "request",
                          !.outcome = outcome,
                          !.status = IF outcome.raised THEN InternalServerError ELSE 200]
    /\ UNCHANGED <<fingerprinted, sampling, profiling, combining>>
    /\ UNCHANGED <<poolVars, cacheVars>>

CompareNext ==
    \/ \E profile1 \in Reports, profile2 \in Reports : CompareProfiles(profile1, profile2)
    \/ \E body \in CompareBodies : CompareRequest(body)
    \/ CompareRespond

----------------------------------------------------------------------------
\* WorkerService.combineResults on the partial results of correlation chunks

\* a call combines the partial results of 0..MaxChunks chunks
MaxChunks == 2

\* the partial result of a chunk: what calculateCorrelations publishes for at
\* most one correlation
PartialCorrelations ==
    {CorrelationReport(cs) :
        cs \in {<<>>} \cup {<<Correlation(p[1], p[2], r, 3)>> :
                              p \in {<<"a", "b">>, <<"a", "c">>, <<"b", "c">>},
                              r \in Coefficients}}

CombineInit ==
    combining = [called |-> FALSE, taskName |-> "calculateCorrelations", n |-> 0,
                 results |-> <<>>, result |-> NoResult]

\* this.combineResults(results, taskName) for the results of n chunks
CombineResults(n, res) ==
    /\ combining' = [called |-> TRUE, taskName |-> "calculateCorrelations", n |-> n,
                     results |-> res,
                     result |-> combineResults(res, n, "calculateCorrelations")]
    /\ UNCHANGED <<fingerprinted, sampling, profiling, comparing>>
    /\ UNCHANGED <<poolVars, cacheVars>>

CombineNext ==
    \E n \in 0..MaxChunks : \E res \in [0..(n - 1) -> PartialCorrelations] :
        CombineResults(n, res)

----------------------------------------------------------------------------
\* the services without state of their own, before any call
EngineInit ==
    /\ FingerprintInit
    /\ SamplingInit
    /\ ProfilerInit
    /\ CompareInit
    /\ CombineInit

\* the worker pool, with an untouched cache
PoolSpecInit == PoolInit /\ CacheInit /\ EngineInit
PoolSpec == PoolSpecInit /\ [][PoolNext]_vars

\* the cache and the profile requests; the pool stays idle
CacheSpecInit == CacheInit /\ PoolInit /\ maxWorkers = 1 /\ EngineInit
CacheSpec == CacheSpecInit /\ [][CacheNext]_vars

\* the calls of the stateless services, each with an idle pool and an
\* untouched cache
FingerprintSpec == CacheSpecInit /\ [][FingerprintNext]_vars
SamplingSpec == CacheSpecInit /\ [][SamplingNext]_vars
ProfilerSpec == CacheSpecInit /\ [][ProfilerNext]_vars
CompareSpec == CacheSpecInit /\ [][CompareNext]_vars
CombineSpec == CacheSpecInit /\ [][CombineNext]_vars

----------------------------------------------------------------------------
\* Claims about the cache and the profile request, checked under CacheSpec

\* C5: a lookup that meets a read error, unparseable content, a missing file
\* or an expired entry reports a miss and leaves neither the file nor the
\* index entry behind.
C5_FailedLookupEvicts ==
    lookup.outcome \in {"readError", "corrupt", "missing", "expired"}
        => /\ lookup.returned = Null
           /\ ~files[lookup.fingerprint].exists
           /\ ~cacheMap[lookup.fingerprint].present

\* C6: a lookup never returns a report whose cache entry was stored more than
\* the TTL ago (age counted from the timestamp written into the entry).
C6_NoHitBeyondTtl ==
    lookup.outcome = "hit" => now - files[lookup.fingerprint].timestamp <= ttl

\* the last lookup was made on a fingerprint whose last successful store is
\* within the TTL and has met no failure since
IntactLookup ==
    /\ lookup.outcome # "none"
    /\ stored[lookup.fingerprint].intact
    /\ now - stored[lookup.fingerprint].at <= ttl

C8_WriteFailureKeepsIndex ==
    [][(/\ req.active
        /\ ~req'.active
        /\ response'.status = 200
        /\ response'.summary.cache.stored = "false")
          => /\ cacheMap' = cacheMap
             /\ ~response'.fromCache
             /\ response'.summary.totals = View(req.csv, req.sampled)]_vars

\* a request was answered with stored = false while the index has no entry
\* for its fingerprint
C8_Witness ==
    /\ response.status = 200
    /\ ~response.fromCache
    /\ response.summary.cache.stored = "false"
    /\ \A fp \in Fingerprints : fp.content = response.csv => ~cacheMap[fp].present

\* C9: a request whose record view was reduced by sampling performs no cache
\* write.
C9_SampledNotStored ==
    (response.status = 200 /\ ~response.fromCache /\ response.summary.sampling.isSampled)
        => response.summary.cache.stored # "true"

\* the summary without its processingTime field
ApartFromProcessingTime(summary) ==
    [f \in (DOMAIN summary) \ {"processingTime"} |-> summary[f]]

\* C10: when an input was profiled and stored and is at once profiled again
\* with useCache = true (and the cache file can be read), the second response
\* has fromCache = true and its summary equals the first one's in every field
\* but processingTime.
C10_CacheHitScenario ==
    [][(/\ response.status = 200
        /\ ~response.fromCache
        /\ response.summary.cache.stored = "true"
        /\ lookup'.outcome \notin {"none", "readError"}
        /\ lookup'.fingerprint.content = response.csv)
          => /\ response'.status = 200
             /\ response'.fromCache
             /\ ApartFromProcessingTime(response'.summary)
                  = ApartFromProcessingTime(response.summary)]_vars

----------------------------------------------------------------------------
\* Claims about the worker pool, checked under PoolSpec

Running(o) == {i \in Indexes : worker[<<o, i>>].st = "running"}

\* C1: if the function run on any chunk raises (throws, or its promise
\* rejects), the promise returned by processInParallel never resolves with a
\* combined result.
C1_ChunkErrorRejects ==
    \A o \in Ops : raised[o] => promise[o].state # "resolved"

\* C2: during a processInParallel call made with option maxWorkers = m, at
\* most m of its workers are running at any moment.
C2_AtMostOptionWorkers ==
    \A o \in Ops :
        promise[o].state = "pending" => Cardinality(Running(o)) <= optMaxWorkers[o]

\* C3: when the deadline expires before every chunk has completed, the
\* operation is rejected with the timeout error and stays rejected: the
\* results of the chunks that had completed are never delivered.
C3_TimeoutRejects ==
    \A o \in Ops :
        (timeoutId[o] = "fired" /\ completedWorkers[o] < nChunks[o])
            => /\ promise[o].state = "rejected"
               /\ promise[o].error = "timeout"
               /\ promise[o].value = NoResult

\* the deadline expired after one chunk had delivered its result, and every
\* worker of the operation has ended since
C3_Witness ==
    \E o \in Ops :
        /\ timeoutId[o] = "fired"
        /\ completedWorkers[o] >= 1
        /\ completedWorkers[o] < nChunks[o]
        /\ \A i \in 0..(nChunks[o] - 1) : worker[<<o, i>>].st = "ended"
        /\ promise[o].error = "timeout"

\* C4: after an operation has failed (chunk error or deadline), none of its
\* workers is still running.
C4_FailureStopsWorkers ==
    \A o \in Ops : promise[o].state = "rejected" => Running(o) = {}

----------------------------------------------------------------------------
\* Claims about the fingerprint, checked under FingerprintSpec

\* the delimiter and skipEmptyLines of a request, absent values defaulted to
\* '' and true
Defaulted(options) ==
    [delimiter |-> IF options.delimiter = Undefined THEN "" ELSE options.delimiter,
     skipEmptyLines |-> IF options.skipEmptyLines = Undefined THEN "true"
                        ELSE options.skipEmptyLines]

\* the part of a fingerprint that serialises the options
Serialisation(fingerprint) ==
    [delimiter |-> fingerprint.delimiter, skipEmptyLines |-> fingerprint.skipEmptyLines]

\* C11: generateFingerprint is a function of (content, delimiter,
\* skipEmptyLines) only: two calls that agree on these three give the same
\* fingerprint whatever their enableSampling, sampleSize and useCache, and two
\* calls that differ in the defaulted delimiter or skipEmptyLines give
\* different option serialisations.
C11_FingerprintOfThree ==
    (fingerprinted.last.called /\ fingerprinted.previous.called) =>
        LET a == fingerprinted.previous
            b == fingerprinted.last
        IN  /\ (a.csv = b.csv /\ Defaulted(a.options) = Defaulted(b.options))
                  => a.fingerprint = b.fingerprint
            /\ Defaulted(a.options) # Defaulted(b.options)
                  => Serialisation(a.fingerprint) # Serialisation(b.fingerprint)

\* two calls on the same content, one without a delimiter and one with the
\* empty delimiter, that differ in useCache, enableSampling and sampleSize and
\* have the same fingerprint
C11_Witness ==
    /\ fingerprinted.last.called /\ fingerprinted.previous.called
    /\ fingerprinted.last.csv = fingerprinted.previous.csv
    /\ fingerprinted.previous.options.delimiter = Undefined
    /\ fingerprinted.last.options.delimiter = ""
    /\ fingerprinted.last.options.useCache # fingerprinted.previous.options.useCache
    /\ fingerprinted.last.options.enableSampling
          # fingerprinted.previous.options.enableSampling
    /\ fingerprinted.last.options.sampleSize # fingerprinted.previous.options.sampleSize
    /\ fingerprinted.last.fingerprint = fingerprinted.previous.fingerprint

----------------------------------------------------------------------------
\* Claims about sampling, checked under SamplingSpec

\* the last createSample call drew a stratified sample
StratifiedCall ==
    /\ sampling.called
    /\ Len(sampling.data) > sampling.options.maxSampleSize
    /\ sampling.options.stratify
    /\ canStratify(sampling.data)
    /\ findStratificationColumn(sampling.data) # NoColumn

\* C12: in stratified sampling (N > maxSampleSize, a stratification column
\* chosen) the sample holds at least one row from every non-empty partition
\* of the stratification column, for every input and every seed.
C12_EveryPartitionSampled ==
    StratifiedCall =>
        \A i \in 1..Len(sampling.data) :
            \E k \in 1..Len(sampling.result.sample) :
                sampling.data[sampling.result.sample[k]] = sampling.data[i]

C14_SmallViewUnchanged ==
    (/\ sampling.called
     /\ Len(sampling.data) >= 1
     /\ Len(sampling.data) <= sampling.options.maxSampleSize) =>
        /\ sampling.result.sample = [i \in 1..Len(sampling.data) |-> i]
        /\ sampling.result.metadata.isSampled = "false"
        /\ sampling.result.metadata.samplingRate = Fraction(1, 1)
        /\ sampling.result.metadata.originalSize = Len(sampling.data)

\* a view of exactly maxSampleSize rows, two or more, was returned whole
C14_Witness ==
    /\ sampling.called
    /\ Len(sampling.data) >= 2
    /\ Len(sampling.data) = sampling.options.maxSampleSize
    /\ Len(sampling.result.sample) = Len(sampling.data)
    /\ sampling.result.metadata.isSampled = "false"

----------------------------------------------------------------------------
\* Claims about the comparison, checked under CompareSpec

\* compareProfiles was applied to two reports that both hold the pair, with
\* coefficients of opposite signs
SignFlip(pair) ==
    /\ comparing.kind = "compareProfiles"
    /\ HasPair(comparing.profile1.correlations.all, pair)
    /\ HasPair(comparing.profile2.correlations.all, pair)
    /\ LET corr1 == GetPair(comparing.profile1.correlations.all, pair).correlation
           corr2 == GetPair(comparing.profile2.correlations.all, pair).correlation
       IN (corr1 > 0 /\ corr2 < 0) \/ (corr1 < 0 /\ corr2 > 0)

\* C15: when both reports contain the correlation pair (u,v) and its
\* coefficients have opposite signs, compareProfiles returns a result in
\* which that pair is the one changed pair, with signChange = true, together
\* with a high-severity insight in category Relationships.
C15_SignFlipReported ==
    \A pair \in {<<"a", "b">>, <<"b", "a">>} :
        SignFlip(pair) =>
            /\ ~comparing.outcome.raised
            /\ Len(comparing.outcome.value.correlations.changed) = 1
            /\ comparing.outcome.value.correlations.changed[1].pair = pair
            /\ comparing.outcome.value.correlations.changed[1].signChange
            /\ \E i \in 1..Len(comparing.outcome.value.insights) :
                  /\ comparing.outcome.value.insights[i].severity = "high"
                  /\ comparing.outcome.value.insights[i].category = "Relationships"

\* C16: a comparison request one of whose two datasets is an empty record
\* view (zero records) is rejected with a validation error (HTTP 400) before
\* the profiling engine runs.  (The profile request's half of the claim is
\* the check `!data || data.length === 0` of routes/profile.js, which answers
\* 400 before profileData is called.)
C16_EmptyViewRejected ==
    (/\ comparing.kind = "request"
     /\ comparing.body.has1 /\ comparing.body.has2
     /\ Len(comparing.body.dataset1) = 0 \/ Len(comparing.body.dataset2) = 0) =>
        /\ comparing.status = BadRequest
        /\ ~comparing.engineRan

----------------------------------------------------------------------------
\* Claims about the profiling engine, checked under ProfilerSpec

\* the columns of the record view that was profiled
ProfiledKeys == KeysOf(profiling.data[1])

\* profileColumn raises on column number i of the view that was profiled
ColumnRaises(i) ==
    /\ profiling.profiled /\ Len(profiling.data) > 0
    /\ i \in 1..Len(ProfiledKeys)
    /\ profileColumn(profiling.data, ProfiledKeys[i]).raised

\* C17: if profiling one column raises, profileData records {type: unknown,
\* count: 0, unique: 0, error: message} for that column, still profiles every
\* other column, and still returns a complete report.
C17_ColumnErrorRecorded ==
    \A i \in 1..Len(Columns) :
        ColumnRaises(i) =>
            /\ ~profiling.outcome.raised
            /\ DOMAIN profiling.outcome.value
                  = {"columnStats", "correlations", "insights", "summary"}
            /\ Len(profiling.outcome.value.columnStats) = Len(ProfiledKeys)
            /\ profiling.outcome.value.summary.totalColumns = Len(ProfiledKeys)
            /\ profiling.outcome.value.columnStats[i]
                  = [column |-> ProfiledKeys[i],
                     stats |-> [type |-> "unknown", count |-> 0, unique |-> 0,
                                error |-> PoisonCell.v]]
            /\ \A k \in 1..Len(ProfiledKeys) :
                  ~ColumnRaises(k) =>
                      /\ profiling.outcome.value.columnStats[k].column = ProfiledKeys[k]
                      /\ profiling.outcome.value.columnStats[k].stats.type
                            \in {"numeric", "categorical"}
                      /\ profiling.outcome.value.columnStats[k].stats.totalCount
                            = Len(profiling.data)

\* a view of two rows was profiled whose column b raised and whose column a
\* was profiled as a numeric column
C17_Witness ==
    /\ Len(profiling.data) = 2
    /\ ColumnRaises(2)
    /\ ~profiling.outcome.raised
    /\ profiling.outcome.value.columnStats[2].stats.type = "unknown"
    /\ profiling.outcome.value.columnStats[1].stats.type = "numeric"

\* the stats that profileColumn produced for column number k of the view
\* that was profiled
StatsOf(k) == profiling.outcome.value.columnStats[k].stats

\* the number of rows whose cell in the column is null, undefined or ''
MissingCells(column) ==
    Cardinality({r \in 1..Len(profiling.data) :
                    profiling.data[r][column] \in {NullCell, UndefinedCell, EmptyCell}})

\* C18: for every column of every record view, the stats produced by
\* profileColumn satisfy missingCount + validCount = totalCount,
\* unique <= validCount and 0 <= missingPercent <= 100, where the cells that
\* are null, undefined or the empty string count as missing.
C18_CountsAddUp ==
    (profiling.profiled /\ ~profiling.outcome.raised) =>
        \A k \in 1..Len(ProfiledKeys) :
            ~ColumnRaises(k) =>
                /\ StatsOf(k).totalCount = Len(profiling.data)
                /\ StatsOf(k).missingCount = MissingCells(ProfiledKeys[k])
                /\ StatsOf(k).missingCount + StatsOf(k).validCount = StatsOf(k).totalCount
                /\ StatsOf(k).unique <= StatsOf(k).validCount
                /\ StatsOf(k).missingPercent.den > 0
                /\ 0 <= StatsOf(k).missingPercent.num
                /\ StatsOf(k).missingPercent.num <= 100 * StatsOf(k).missingPercent.den

\* a column holding one empty string and one valid value was profiled: one
\* missing and one valid cell, 50 percent missing
C18_Witness ==
    /\ profiling.profiled /\ ~profiling.outcome.raised
    /\ Len(profiling.data) = 2
    /\ profiling.data[1].a # EmptyCell /\ IsValid(profiling.data[1].a)
    /\ profiling.data[2].a = EmptyCell
    /\ StatsOf(1).missingCount = 1
    /\ StatsOf(1).validCount = 1
    /\ StatsOf(1).missingPercent.num * 2 = 100 * StatsOf(1).missingPercent.den

\* the valid values of a column of the view that was profiled, as strings
ValidKeys(column) ==
    LET valid == SelectSeq(ColumnValues(profiling.data, column), IsValid)
    IN [r \in 1..Len(valid) |-> KeyOf(valid[r]).key]

\* the position at which a value is first seen among the valid values
FirstSeenAt(keys, value) ==
    CHOOSE r \in 1..Len(keys) :
        keys[r] = value /\ \A q \in 1..(r - 1) : keys[q] # value

\* C19: for a categorical column, topValues holds at most 10 (value, count)
\* pairs in descending order of count, values with equal counts appear in the
\* order in which they were first seen in the column, and mode and modeCount
\* are taken from the first pair.
C19_TopValuesOrder ==
    (profiling.profiled /\ ~profiling.outcome.raised) =>
        \A k \in 1..Len(ProfiledKeys) :
            (~ColumnRaises(k) /\ StatsOf(k).type = "categorical") =>
                LET top == StatsOf(k).topValues
                    keys == ValidKeys(ProfiledKeys[k])
                IN  /\ Len(top) <= 10
                    /\ \A i, j \in 1..Len(top) :
                          i < j =>
                             \/ top[i].count > top[j].count
                             \/ /\ top[i].count = top[j].count
                                /\ FirstSeenAt(keys, top[i].value)
                                     < FirstSeenAt(keys, top[j].value)
                    /\ Len(top) > 0 =>
                          /\ StatsOf(k).mode = top[1].value
                          /\ StatsOf(k).modeCount = top[1].count

----------------------------------------------------------------------------
\* Claims about the combiner, checked under CombineSpec

\* C20: with taskName = calculateCorrelations the combiner concatenates the
\* partial `all` arrays of every chunk, re-sorts the concatenation by
\* descending strength and recomputes the partitions (strong, moderate, weak,
\* positive, negative) from it, so that the combined result is what the
\* sequential correlation computation publishes for these correlations.
C20_CombinedAsSequential ==
    (combining.called /\ combining.n >= 1) =>
        combining.result
            = CorrelationReport(FlatMapAll(combining.results, combining.n))

----------------------------------------------------------------------------
\* Further claims about the worker pool, checked under PoolSpec

\* C21: every worker started by the pool returns its capacity exactly once
\* when it ends, whether it ends by posting a result, by raising an error or
\* by exiting with any exit code (also without ever posting a result); so
\* activeWorkers is never negative and always equals the number of workers
\* that have been started and have not ended.
C21_CapacityMatchesWorkers ==
    /\ activeWorkers >= 0
    /\ activeWorkers
          = Cardinality({t \in Tasks : worker[t].st \in {"running", "terminated"}})

\* the chunks that the step queues, in the order of queueTask: those of the
\* operation whose processInParallel call the step is
NewlyQueued ==
    IF \E o \in Ops : promise[o].state = "none" /\ promise'[o].state = "pending"
    THEN LET o == CHOOSE o \in Ops :
                     promise[o].state = "none" /\ promise'[o].state = "pending"
         IN [k \in 1..nChunks'[o] |-> <<o, k - 1>>]
    ELSE <<>>

\* the chunks for which the step starts a worker
NewlyStarted == {t \in Tasks : worker[t].st = "none" /\ worker'[t].st = "running"}

\* C22: tasks are dispatched from the queue in FIFO order: in every step the
\* chunks that are started are the ones queued earliest among the chunks that
\* wait or are queued by the step, and the others keep their order in the
\* queue; so of two queued chunks the one queued earlier is started no later
\* than the other, under every interleaving of completions and calls.
C22_FifoDispatch ==
    [][LET waiting == taskQueue \o NewlyQueued
       IN \E k \in 0..Len(waiting) :
             /\ NewlyStarted = {waiting[j] : j \in 1..k}
             /\ taskQueue' = SubSeq(waiting, k + 1, Len(waiting))]_vars

\* on a pool of one worker, the chunks of operation 1 have been served, the
\* first chunk of operation 2 has been taken from the queue and its second
\* chunk waits
C22_Witness ==
    /\ maxWorkers = 1
    /\ worker[<<1, 0>>].st = "ended" /\ worker[<<1, 1>>].st = "ended"
    /\ worker[<<2, 0>>].st = "running"
    /\ taskQueue = <<<<2, 1>>>>

\* C27: once a processInParallel operation has failed (chunk error) or timed
\* out, no further queued chunk of that operation is dispatched to a worker:
\* no step starts a worker for a chunk of an operation whose promise is
\* already rejected.
C27_NoDispatchAfterFailure ==
    [][\A t \in NewlyStarted : promise[t[1]].state # "rejected"]_vars

\* C23: the combined result of a successful processInParallel is independent
\* of the order in which the workers complete: the result of chunk i is kept
\* at index i whenever it arrives, and when every chunk has produced its
\* partial result the promise resolves with the combination of the partial
\* results in the order of the chunks, the same value in every execution.
C23_OrderIndependent ==
    \A o \in Ops :
        ~raised[o] =>
            /\ \A i \in Indexes :
                  (worker[<<o, i>>].workerCompleted /\ ~hasError[o])
                      => results[o][i] = ChunkResult(i)
            /\ (promise[o].state = "resolved" /\ nChunks[o] >= 1)
                  => promise[o].value
                        = combineResults([i \in Indexes |-> ChunkResult(i)],
                                         nChunks[o], DefaultTaskName)

\* an operation of two chunks that ran side by side on a pool of two workers,
\* so that either could complete first, has resolved with the combination in
\* which the value of the last chunk stands under the common key
C23_Witness ==
    \E o \in Ops :
        /\ maxWorkers = 2 /\ nChunks[o] = 2 /\ ~raised[o]
        /\ promise[o].state = "resolved"
        /\ promise[o].value[<<"chunk", 0>>] = ToString(1)
        /\ DOMAIN promise[o].value = {<<"col", 0>>, <<"col", 1>>, <<"chunk", 0>>}

----------------------------------------------------------------------------
\* A further claim about the cache, checked under CacheSpec

----------------------------------------------------------------------------
\* Further claims about sampling, checked under SamplingSpec

\* the column that an examination of the first 100 rows alone would choose:
\* 2..20 distinct non-null values and a null ratio below 0.2 in those rows
ColumnOfFirstRows(data) ==
    LET first == SubSeq(data, 1, Min(ScanRows, Len(data)))
    IN  IF /\ Len(first) > 0
           /\ UniqueCount(first) >= 2
           /\ UniqueCount(first) <= 20
           /\ 5 * Cardinality({i \in 1..Len(first) : first[i] = Undefined}) < Len(first)
        THEN GroupColumn
        ELSE NoColumn

\* the column on which the last call grouped the rows, NoColumn when it drew
\* an unstratified sample
ColumnUsed ==
    IF sampling.options.stratify /\ canStratify(sampling.data)
    THEN findStratificationColumn(sampling.data)
    ELSE NoColumn

\* C25: the stratification column is chosen by examining only the first 100
\* rows: a column with 2..20 distinct non-null values and a null ratio below
\* 0.2 in those rows is a candidate, and without a candidate the sample is
\* unstratified.
C25_ColumnFromFirstRows ==
    (/\ sampling.called
     /\ Len(sampling.data) > sampling.options.maxSampleSize
     /\ sampling.options.stratify) =>
        ColumnUsed = ColumnOfFirstRows(sampling.data)

\* C26: metadata.stratified is true only if the sample was produced by
\* stratified sampling on a chosen column; after a fallback to unstratified
\* sampling it is false.
C26_StratifiedFlagTruthful ==
    (/\ sampling.called
     /\ Len(sampling.data) > sampling.options.maxSampleSize
     /\ sampling.result.metadata.stratified = "true") =>
        /\ ColumnUsed # NoColumn
        /\ sampling.result.sample
              = SampleGroups(sampling.data,
                             FirstSeen(GroupKeys(sampling.data), Len(sampling.data)),
                             sampling.result.metadata.samplingRate,
                             sampling.options.randomSeed,
                             Len(FirstSeen(GroupKeys(sampling.data),
                                           Len(sampling.data)))).sample

----------------------------------------------------------------------------
\* A further claim about the comparison, checked under CompareSpec

\* the entries of a list of changes that are about the columns u and v,
\* whichever is named first in the pair
AboutColumns(changes, u, v) ==
    SelectSeq(changes, LAMBDA c : {c.pair[1], c.pair[2]} = {u, v})

\* C29: in compareProfiles a correlation between the same two columns that
\* is present in both reports is classified as changed, never as one removed
\* pair and one added pair, whatever the order of the columns in either
\* dataset.
C29_SameColumnsChanged ==
    comparing.kind = "compareProfiles" =>
        LET all1 == comparing.profile1.correlations.all
            all2 == comparing.profile2.correlations.all
            correlationChanges == compareCorrelations(all1, all2)
        IN \A i \in 1..Len(all1), j \in 1..Len(all2) :
              {all1[i].colA, all1[i].colB} = {all2[j].colA, all2[j].colB} =>
                  /\ Len(AboutColumns(correlationChanges.changed,
                                      all1[i].colA, all1[i].colB)) = 1
                  /\ Len(AboutColumns(correlationChanges.added,
                                      all1[i].colA, all1[i].colB)) = 0
                  /\ Len(AboutColumns(correlationChanges.removed,
                                      all1[i].colA, all1[i].colB)) = 0

----------------------------------------------------------------------------
\* A further claim about the profiler, checked under ProfilerSpec

\* C30: the low-severity insight `appears to be an identifier` is emitted
\* only for categorical columns that have at least one valid value; a column
\* whose cells are all null (validCount = 0, unique = 0) gets none.
C30_IdentifierNeedsValues ==
    (profiling.profiled /\ ~profiling.outcome.raised) =>
        \A k \in 1..Len(ProfiledKeys) :
            (\E i \in 1..Len(profiling.outcome.value.insights) :
                profiling.outcome.value.insights[i]
                    = Insight("info", "Feature Engineering", "low", ProfiledKeys[k]))
                => /\ StatsOf(k).type = "categorical"
                   /\ StatsOf(k).validCount >= 1

====
